---- MODULE Spec2Model ----
(***************************************************************************)
(* A model of the cached-fetch layer (downloader.py), the country registry *)
(* (geolocator.read_known_countries, generate_map.classify_countries) and  *)
(* the location resolver (geolocator.Locator) of data-cartography.         *)
(*                                                                         *)
(* Python values are tagged tuples, so that None, strings and numbers can  *)
(* live in one field: <<"None">>, <<"str", s>>, <<"int", i>>,              *)
(* <<"float", k>>.  A dict is a function whose DOMAIN is its set of keys.  *)
(* URLs and file names are sequences of one-character strings, so that     *)
(* 'login' in finalurl and the cache-name derivation are computed.         *)
(***************************************************************************)
EXTENDS Integers, Sequences, FiniteSets, TLC

VARIABLES
    cache,      \* Cache Store: file name -> [exists, mtime, data]
    now,        \* time.time(), in days
    call,       \* the call of the fetch layer the last step made, its outcome
    rkc,        \* read_known_countries: its position, locals and country_dict
    gm,         \* generate_map: the countrylist of classify_countries
    lookup,     \* the last lookup in a country registry and its outcome
    locator,    \* Locator: places, indexes by identifier, dirty flag, code list
    res,        \* the last call of the Locator and its outcome
    stored      \* geography/known_locations.csv: its rows, how often written

fetchVars == <<cache, now, call>>
countryVars == <<rkc, gm, lookup>>
locateVars == <<locator, res, stored>>

----------------------------------------------------------------------------
(* Bounds of the model *)

MaxTime == 2
MaxTtl == 1

----------------------------------------------------------------------------
(* Python values *)

PyNone == <<"None">>
Str(s) == <<"str", s>>
PyInt(i) == <<"int", i>>
PyBool(b) == <<"bool", b>>
\* A float, in units of 1/10000 degree.
Float(n) == <<"float", n>>

\* not v
Falsy(v) == v \in {PyNone, Str(""), PyInt(0), Float(0), PyBool(FALSE)}

\* d[k] = v on a dict d
Put(d, k, v) == [x \in DOMAIN d \cup {k} |-> IF x = k THEN v ELSE d[x]]

\* The dict with the keys ks, all from d
Only(d, ks) == [x \in ks |-> d[x]]

EmptyDict == [x \in {} |-> PyNone]

----------------------------------------------------------------------------
(* downloader.py: URLs, cache names *)

AlNum == {"a", "b", "c", "d", "e", "g", "h", "i", "j", "k", "l", "m", "n",
          "o", "r", "s"}

Login == <<"l", "o", "g", "i", "n">>

\* The requested URL of the model (its path; no query string).
UrlData == <<"/", "d", ".", "j", "s", "o", "n">>
\* The geocoding URL: https://nominatim.openstreetmap.org/search
UrlOsm == <<"/", "s", "e", "a", "r", "c", "h">>
\* Where a redirect may end: a login page, or some other page.
UrlLogin == <<"/", "l", "o", "g", "i", "n">>
UrlMoved == <<"/", "m">>

Urls == {UrlData}
FinalUrls(url) == {url, UrlLogin, UrlMoved}

\* 'login' in finalurl
Contains(s, sub) ==
    \E i \in 1..(Len(s) - Len(sub) + 1) : SubSeq(s, i, i + Len(sub) - 1) = sub

RECURSIVE LStrip(_)
LStrip(s) == IF s # <<>> /\ Head(s) = "/" THEN LStrip(Tail(s)) ELSE s

RECURSIVE RStrip(_)
RStrip(s) ==
    IF s # <<>> /\ s[Len(s)] = "/" THEN RStrip(SubSeq(s, 1, Len(s) - 1)) ELSE s

\* re.sub(r'[^A-Za-z0-9]+', '_', s)
RECURSIVE SubNonAlNum(_, _)
SubNonAlNum(s, inRun) ==
    IF s = <<>> THEN <<>>
    ELSE IF Head(s) \in AlNum THEN <<Head(s)>> \o SubNonAlNum(Tail(s), FALSE)
    ELSE IF inRun THEN SubNonAlNum(Tail(s), TRUE)
    ELSE <<"_">> \o SubNonAlNum(Tail(s), TRUE)

EndsWith(s, suffix) ==
    Len(s) >= Len(suffix) /\ SubSeq(s, Len(s) - Len(suffix) + 1, Len(s)) = suffix

\* _url_to_short_filename(url, extension='.json'), for a URL without query.
UrlToShortFilename(url) ==
    LET stripped == RStrip(LStrip(url))
        subbed == SubNonAlNum(stripped, FALSE)
        short_name == IF EndsWith(subbed, <<"_", "j", "s", "o", "n">>)
                      THEN SubSeq(subbed, 1, Len(subbed) - 5)
                      ELSE subbed
    IN  short_name \o <<".", "j", "s", "o", "n">>

\* cache_name: omitted (None), or empty; both derive the name from the URL.
\* The derived cache name of each URL of the model.
ShortFilenameOf == [u \in Urls \cup {UrlOsm} |-> UrlToShortFilename(u)]
CacheNames == {PyNone}
FileNames == {UrlToShortFilename(u) : u \in Urls \cup {UrlOsm}}

----------------------------------------------------------------------------
(* downloader.py: payloads and decode functions *)

\* Classes of response text: a JSON document, an XML document, an HTML page.
Payloads == {"json", "xml", "html"}

\* decode_func: the default lambda x: x, json.loads, ET.XML, and
\* download_meril's parser_decorder (an HTML parser).
DecodeFuncs == {"text", "json.loads", "ET.XML", "parser_decorder"}

\* The texts json.loads accepts: a JSON document, and the two answers of the
\* geocoding service (a list with a result, an empty list).
JsonTexts == {"json", "osm_hit", "osm_empty"}

\* decode_func(data): the decoded value, or the exception it raises.
\* json.loads raises JSONDecodeError, a ValueError; ET.XML raises ParseError,
\* a SyntaxError; parser_decorder raises ValueError on an empty result.
Decode(decode_func, data) ==
    CASE decode_func = "text" -> [exc |-> "", value |-> <<"str", data>>]
      [] decode_func = "json.loads" ->
            IF data \in JsonTexts THEN [exc |-> "", value |-> <<"object", data>>]
            ELSE [exc |-> "ValueError", value |-> PyNone]
      [] decode_func = "ET.XML" ->
            IF data = "xml" THEN [exc |-> "", value |-> <<"Element", data>>]
            ELSE [exc |-> "ParseError", value |-> PyNone]
      [] decode_func = "parser_decorder" ->
            IF data = "html" THEN [exc |-> "", value |-> <<"dict", data>>]
            ELSE [exc |-> "ValueError", value |-> PyNone]

\* except ValueError: the exceptions the handler of line 206 catches.
IsValueError(exc) == exc = "ValueError"

----------------------------------------------------------------------------
(* downloader.py: the network *)

Statuses == {200, 304, 404}

\* What session.get(url) ends in: requests.ConnectionError, another
\* requests exception (a read timeout, too many redirects), or a response
\* with its final status, final URL and text.
NetOutcomes(url) ==
    {[kind |-> k, status |-> 0, url |-> url, text |-> ""] :
        k \in {"requests.ConnectionError", "requests.Timeout"}}
    \cup
    {[kind |-> "response", status |-> s, url |-> f, text |-> p] :
        s \in Statuses, f \in FinalUrls(url), p \in Payloads}

\* No request was made.
NoNet == [kind |-> "none", status |-> 0, url |-> <<>>, text |-> ""]

\* r.raise_for_status(): HTTPError for a 4xx or 5xx status.
RaisesForStatus(status) == status >= 400 /\ status < 600

----------------------------------------------------------------------------
(* downloader.py: CachedDownloader.get_cached_url *)

NoFile == [exists |-> FALSE, mtime |-> 0, data |-> ""]

\* file_age(file_path): the age of the file, in days
FileAge(c, file_path, t) == t - c[file_path].mtime

\* Mutant: a ttl of None is not taken as "no expiry".
UseCacheNoneExpires(c, file_path, ttl, t) ==
    /\ c[file_path].exists
    /\ ttl # PyNone
    /\ FileAge(c, file_path, t) < ttl[2]

\* Mutant: a ttl of None never goes to the network.
UseCacheNoneNeverFetches(c, file_path, ttl, t) ==
    \/ ttl = PyNone
    \/ c[file_path].exists /\ FileAge(c, file_path, t) < ttl[2]

\* Mutant: a slot whose age is equal to ttl is still used.
UseCacheAtTtl(c, file_path, ttl, t) ==
    /\ c[file_path].exists
    /\ (ttl = PyNone \/ FileAge(c, file_path, t) <= ttl[2])

\* file_path.exists() and (ttl is None or file_age(file_path) < ttl)
UseCache(c, file_path, ttl, t) ==
    /\ c[file_path].exists
    /\ (ttl = PyNone \/ FileAge(c, file_path, t) < ttl[2])

\* Mutant: r.raise_for_status() is left out.
GetOutcomeNoStatusCheck(net) ==
    IF net.kind = "requests.ConnectionError" THEN "ConnectionError"
    ELSE IF net.kind # "response" THEN net.kind
    ELSE ""

\* The except clauses of the network GET.
GetOutcome(net) ==
    IF net.kind = "requests.ConnectionError" THEN "ConnectionError"
    ELSE IF net.kind # "response" THEN net.kind
    ELSE IF RaisesForStatus(net.status) THEN "ConnectionError"
    ELSE ""

\* Mutant: the login marker is looked for before the URLs are compared.
ClassifyDecodeFailureLoginFirst(exc, url, finalurl) ==
    IF ~IsValueError(exc) THEN exc
    ELSE IF Contains(finalurl, Login) THEN "PermissionError"
    ELSE IF finalurl = url THEN "ValueError"
    ELSE "PermissionError"

\* The except ValueError clause around decode_func(data).
ClassifyDecodeFailure(exc, url, finalurl) ==
    IF ~IsValueError(exc) THEN exc
    ELSE IF finalurl = url THEN "ValueError"
    ELSE IF Contains(finalurl, Login) THEN "PermissionError"
    ELSE "ConnectionError"

\* Mutant: the downloaded data is never written.
WriteCacheNever(c, file_path, data, t, write_ok) == c

\* The write of the downloaded data to the cache file; an OSError is swallowed.
WriteCache(c, file_path, data, t, write_ok) ==
    IF write_ok
    THEN [c EXCEPT ![file_path] = [exists |-> TRUE, mtime |-> t, data |-> data]]
    ELSE c

\* get_cached_url: the outcome of the call and the Cache Store after it.
\*   requested: session.get was called;  decoded: decode_func was applied;
\*   exc: the exception the call ends in ("" when it returns).
GetCachedUrl(c, t, url, cache_name, ttl, decode_func, net, write_ok) ==
    LET file_path == IF cache_name = PyNone \/ cache_name = Str(<<>>)
                     THEN ShortFilenameOf[url] ELSE cache_name[2]
        hit == UseCache(c, file_path, ttl, t)
        getexc == IF hit THEN "" ELSE GetOutcome(net)
        data == IF hit THEN c[file_path].data ELSE net.text
        finalurl == IF hit THEN url ELSE net.url
        downloaded_data == ~hit /\ getexc = ""
        dec == Decode(decode_func, data)
        base == [url |-> url, file_path |-> file_path, ttl |-> ttl,
                 decode_func |-> decode_func, hit |-> hit, requested |-> ~hit,
                 net |-> IF hit THEN NoNet ELSE net, finalurl |-> finalurl,
                 data |-> IF getexc = "" THEN data ELSE ""]
        none == [decoded |-> FALSE, exc |-> "", value |-> PyNone,
                 wrote |-> FALSE, write_ok |-> TRUE, cache |-> c]
    IN  IF getexc # ""
        THEN base @@ [none EXCEPT !.exc = getexc]
        ELSE IF dec.exc # ""
        THEN base @@ [none EXCEPT !.decoded = TRUE,
                        !.exc = ClassifyDecodeFailure(dec.exc, url, finalurl)]
        ELSE base @@ [none EXCEPT !.decoded = TRUE, !.value = dec.value,
                        !.wrote = downloaded_data,
                        !.write_ok = (~downloaded_data \/ write_ok),
                        !.cache = IF downloaded_data
                                  THEN WriteCache(c, file_path, data, t, write_ok)
                                  ELSE c]

\* Mutant: the uncached GET goes through the cache, with the default decode.
GetUncachedUrlCached(c, t, url, net) ==
    GetCachedUrl(c, t, url, PyNone, PyInt(1), "text", net, TRUE)

\* get_uncached_url: always a request; no status check, no cache, no
\* classification; an exception of the transport propagates as it is.
GetUncachedUrl(c, t, url, net) ==
    LET file_path == ShortFilenameOf[url]
    IN  [url |-> url, file_path |-> file_path, ttl |-> PyNone,
         decode_func |-> "text", hit |-> FALSE, requested |-> TRUE,
         net |-> net, finalurl |-> net.url,
         data |-> net.text,
         decoded |-> FALSE,
         exc |-> IF net.kind = "response" THEN "" ELSE net.kind,
         value |-> IF net.kind = "response" THEN <<"str", net.text>> ELSE PyNone,
         wrote |-> FALSE, write_ok |-> TRUE, cache |-> c]

Ttls == {PyNone} \cup {PyInt(n) : n \in 1..MaxTtl}

NoCall == [op |-> "none"]

\* The Cache Store a run starts with: each file absent, or left by an
\* earlier run at time 0.
FetchInit ==
    /\ cache \in [FileNames -> {NoFile} \cup
                    {[exists |-> TRUE, mtime |-> 0, data |-> p] : p \in {"json"}}]
    /\ now = 0
    /\ call = NoCall

Record(op, r) ==
    /\ call' = [op |-> op] @@ [k \in DOMAIN r \ {"cache"} |-> r[k]]
    /\ cache' = r.cache
    /\ UNCHANGED <<now, countryVars, locateVars>>

\* download_meril.py calls get_cached_url with decode_func=parser_decorder.
CallGetCachedUrl ==
    \E url \in Urls, cache_name \in CacheNames, ttl \in Ttls,
       decode_func \in {"parser_decorder"}, write_ok \in BOOLEAN :
      \E net \in NetOutcomes(url) :
        Record("get_cached_url",
               GetCachedUrl(cache, now, url, cache_name, ttl, decode_func,
                            net, write_ok))

CallGetCachedJson ==
    \E url \in Urls, cache_name \in CacheNames, ttl \in Ttls,
       write_ok \in BOOLEAN :
      \E net \in NetOutcomes(url) :
        Record("get_cached_json",
               GetCachedUrl(cache, now, url, cache_name, ttl, "json.loads",
                            net, write_ok))

CallGetCachedXml ==
    \E url \in Urls, cache_name \in CacheNames, ttl \in Ttls,
       write_ok \in BOOLEAN :
      \E net \in NetOutcomes(url) :
        Record("get_cached_xml",
               GetCachedUrl(cache, now, url, cache_name, ttl, "ET.XML",
                            net, write_ok))

CallGetCachedBinary ==
    \E url \in Urls, cache_name \in CacheNames, ttl \in Ttls,
       write_ok \in BOOLEAN :
      \E net \in NetOutcomes(url) :
        Record("get_cached_binary",
               GetCachedUrl(cache, now, url, cache_name, ttl, "text",
                            net, write_ok))

\* Locator._get_location_from_osm: data = self.downloader.get_uncached_url(url)
CallGetUncachedUrl ==
    \E net \in NetOutcomes(UrlOsm) :
        Record("get_uncached_url", GetUncachedUrl(cache, now, UrlOsm, net))

Tick ==
    /\ now < MaxTime
    /\ now' = now + 1
    /\ UNCHANGED <<cache, call, countryVars, locateVars>>

FetchNext ==
    \/ CallGetCachedUrl
    \/ CallGetCachedJson
    \/ CallGetCachedXml
    \/ CallGetCachedBinary
    \/ CallGetUncachedUrl
    \/ Tick

----------------------------------------------------------------------------
(* geolocator.py: read_known_countries *)

\* Rows of geography/countries.csv, as get_tsv returns them
\* (aliases already split into a list).
LocalNL == ("iso-2" :> Str("NL")) @@ ("iso-3" :> Str("NLD")) @@
           [name |-> Str("Netherlands"), aliases |-> <<Str("Holland")>>,
            eu_member_status |-> Str("EU member")]

\* Rows of geography/UNSD-Methodology.csv: a country of countries.csv under
\* its UN name, a country that is not in countries.csv, an area without
\* ISO-3 code.
UnsdRow(name, iso3, m49, region) ==
    ("iso-alpha3_code" :> Str(iso3)) @@ ("sub-region_name" :> Str(region)) @@
    [country_or_area |-> Str(name), m49_code |-> PyInt(m49)]

UnsdJP == UnsdRow("Japan", "JPN", 392, "Eastern Asia")
UnsdNL == UnsdRow("Netherlands (Kingdom of the)", "NLD", 528, "Western Europe")
UnsdSark == UnsdRow("Sark", "", 680, "Northern Europe")

\* Rows of geography/iso3166.csv; Taiwan is in ISO 3166 and not in UNSD.
IsoRow(name, a2, a3, numeric) ==
    ("alpha-2_code" :> Str(a2)) @@ ("alpha-3_code" :> Str(a3)) @@
    [english_short_name |-> Str(name), numeric |-> PyInt(numeric)]

IsoJP == IsoRow("Japan", "JP", "JPN", 392)
IsoNL == IsoRow("Netherlands", "NL", "NLD", 528)
IsoTW == IsoRow("Taiwan", "TW", "TWN", 158)

\* The sub-sequences of a list: a file holds some of the rows, in file order.
RECURSIVE SubSeqs(_)
SubSeqs(s) ==
    IF s = <<>> THEN {<<>>}
    ELSE LET rest == SubSeqs(Tail(s))
         IN  rest \cup {<<Head(s)>> \o r : r \in rest}

LocalLists == SubSeqs(<<LocalNL>>)
UnsdLists == SubSeqs(<<UnsdJP, UnsdNL, UnsdSark>>)
IsoLists == SubSeqs(<<IsoJP, IsoNL, IsoTW>>)

Unbound == <<"unbound">>

\* alias in country['aliases']
InList(x, list) == \E i \in 1..Len(list) : list[i] = x

\* The locals of read_known_countries: the country records (each one
\* object, named by its place in recs), country_dict (key -> record), the
\* variable `name`, and the exception raised, if any.
RkcStart == [recs |-> <<>>, country_dict |-> EmptyDict, name |-> Unbound,
             exc |-> ""]

\* One pass of `for country in country_list` (lines 53-66).
LocalRowStep(st, country) ==
    LET status == country.eu_member_status
        in_eu == status \in {Str("EU member"), Str("H2020 Associated Country")}
        rec == Put(Put(Put(Put(Put(country,
                    "in_eu", in_eu),
                    "m49", PyNone),
                    "region", Str("")),
                    "source", Str("local")),
                    "aliases", <<country.name>> \o country.aliases)
        idx == Len(st.recs) + 1
    IN  [st EXCEPT !.recs = Append(@, rec),
                   !.country_dict = Put(Put(@, rec["iso-2"], idx),
                                        rec["iso-3"], idx)]

\* One pass of `for country_src in country_list` over UNSD (lines 70-92).
UnsdRowStep(st, country_src) ==
    LET name == country_src.country_or_area
        iso3 == country_src["iso-alpha3_code"]
        found == iso3 \in DOMAIN st.country_dict
        new == ("iso-3" :> iso3) @@ ("iso-2" :> PyNone) @@
               [name |-> name, in_eu |-> FALSE, aliases |-> <<name>>,
                source |-> Str("unsd")]
        idx == IF found THEN st.country_dict[iso3] ELSE Len(st.recs) + 1
        recs1 == IF found THEN st.recs ELSE Append(st.recs, new)
        dict1 == IF found THEN st.country_dict
                 ELSE Put(Put(st.country_dict, name, idx), iso3, idx)
        c1 == Put(Put(recs1[idx], "region", country_src["sub-region_name"]),
                  "m49", country_src.m49_code)
        c2 == IF InList(name, c1.aliases) THEN c1
              ELSE [c1 EXCEPT !.aliases = Append(@, name)]
    IN  IF ~found /\ Falsy(iso3)
        THEN [st EXCEPT !.name = name]
        ELSE [st EXCEPT !.name = name,
                        !.recs = [recs1 EXCEPT ![idx] = c2],
                        !.country_dict = Put(dict1, c2.m49, idx)]

\* Mutant: a record made from an ISO 3166 row starts with its own name as
\* its only alias.
IsoNewAliasesOwnName(st, country_src) == <<country_src.english_short_name>>

\* 'aliases': [name] of the record made from an ISO 3166 row (line 104):
\* `name` is the variable the loops before left behind.
IsoNewAliases(st, country_src) == <<st.name>>

\* One pass of `for country_src in country_list` over ISO 3166
\* (lines 96-123).
IsoRowStep(st, country_src) ==
    LET numeric == country_src.numeric
        found == numeric \in DOMAIN st.country_dict
        new == ("iso-3" :> country_src["alpha-3_code"]) @@
               ("iso-2" :> country_src["alpha-2_code"]) @@
               [name |-> country_src.english_short_name, in_eu |-> FALSE,
                aliases |-> IsoNewAliases(st, country_src),
                m49 |-> numeric, region |-> Str(""),
                source |-> Str("iso3166")]
        idx == IF found THEN st.country_dict[numeric] ELSE Len(st.recs) + 1
        recs1 == IF found THEN st.recs ELSE Append(st.recs, new)
        dict1 == IF found THEN st.country_dict
                 ELSE Put(Put(Put(Put(st.country_dict,
                        new.name, idx), new["iso-2"], idx),
                        new["iso-3"], idx), new.m49, idx)
        backfill == Falsy(recs1[idx]["iso-2"])
        c1 == IF backfill
              THEN Put(recs1[idx], "iso-2", country_src["alpha-2_code"])
              ELSE recs1[idx]
        dict2 == IF backfill THEN Put(dict1, c1["iso-2"], idx) ELSE dict1
        name == country_src.english_short_name
        c2 == IF InList(name, c1.aliases) THEN c1
              ELSE [c1 EXCEPT !.aliases = Append(@, name)]
    IN  IF ~found /\ st.name = Unbound
        THEN [st EXCEPT !.exc = "NameError"]
        ELSE IF c1["iso-2"] # country_src["alpha-2_code"]
        THEN [st EXCEPT !.exc = "AssertionError",
                        !.recs = [recs1 EXCEPT ![idx] = c1],
                        !.country_dict = dict2]
        ELSE [st EXCEPT !.name = name,
                        !.recs = [recs1 EXCEPT ![idx] = c2],
                        !.country_dict = dict2]

\* A loop over the rows of a file; it ends at the first exception.
RECURSIVE LocalLoop(_, _)
LocalLoop(st, rows) ==
    IF rows = <<>> \/ st.exc # "" THEN st
    ELSE LocalLoop(LocalRowStep(st, Head(rows)), Tail(rows))

RECURSIVE UnsdLoop(_, _)
UnsdLoop(st, rows) ==
    IF rows = <<>> \/ st.exc # "" THEN st
    ELSE UnsdLoop(UnsdRowStep(st, Head(rows)), Tail(rows))

RECURSIVE IsoLoop(_, _)
IsoLoop(st, rows) ==
    IF rows = <<>> \/ st.exc # "" THEN st
    ELSE IsoLoop(IsoRowStep(st, Head(rows)), Tail(rows))

\* for alias in country['aliases']: country_dict[alias] = country
RECURSIVE PutAliases(_, _, _)
PutAliases(d, aliases, idx) ==
    IF aliases = <<>> THEN d
    ELSE PutAliases(Put(d, Head(aliases), idx), Tail(aliases), idx)

\* One pass of `for countrycode in all_country_codes` (lines 127-143): the
\* aliases of the record become keys, then the assertions are made (== on
\* dicts compares their contents).
AliasStep(st, countrycode) ==
    LET idx == st.country_dict[countrycode]
        country == st.recs[idx]
        d == PutAliases(st.country_dict, country.aliases, idx)
        has(k) == k \in DOMAIN d
        same(k) == st.recs[d[k]] = country
    IN  IF ~has(country.name) \/ ~has(country["iso-2"]) \/ ~has(country["iso-3"])
        THEN [st EXCEPT !.country_dict = d, !.exc = "KeyError"]
        ELSE IF \/ ~same(country.name)
                \/ ~same(country["iso-2"])
                \/ ~same(country["iso-3"])
                \/ ~Falsy(country.m49) /\ ~same(country.m49)
                \/ Falsy(country.name)
                \/ Falsy(country["iso-3"])
                \/ Falsy(country["iso-2"])
                \/ "region" \notin DOMAIN country
        THEN [st EXCEPT !.country_dict = d, !.exc = "AssertionError"]
        ELSE [st EXCEPT !.country_dict = d]

NoLookup == [registry |-> "none"]

\* The files read_known_countries is about to read.
CountryInit ==
    /\ \E l \in LocalLists, u \in UnsdLists, i \in IsoLists :
         rkc = [pc |-> "local", local |-> l, unsd |-> u, iso |-> i,
                todo |-> {}] @@ RkcStart
    /\ gm = [built |-> FALSE, recs |-> <<>>, country_dict |-> EmptyDict]
    /\ lookup = NoLookup

\* Lines 47-66.
RkcLocal ==
    /\ rkc.pc = "local"
    /\ LET st == LocalLoop(Only(rkc, DOMAIN RkcStart), rkc.local)
       IN  rkc' = [pc |-> "unsd"] @@ st @@ rkc
    /\ UNCHANGED <<gm, lookup, fetchVars, locateVars>>

\* Lines 68-92.
RkcUnsd ==
    /\ rkc.pc = "unsd"
    /\ LET st == UnsdLoop(Only(rkc, DOMAIN RkcStart), rkc.unsd)
       IN  rkc' = [pc |-> "iso"] @@ st @@ rkc
    /\ UNCHANGED <<gm, lookup, fetchVars, locateVars>>

\* Lines 94-126; all_country_codes = list(set(country_dict)).
RkcIso ==
    /\ rkc.pc = "iso"
    /\ LET st == IsoLoop(Only(rkc, DOMAIN RkcStart), rkc.iso)
       IN  rkc' = [pc |-> IF st.exc # "" THEN "raised" ELSE "aliases",
                   todo |-> IF st.exc # "" THEN {}
                            ELSE DOMAIN st.country_dict] @@ st @@ rkc
    /\ UNCHANGED <<gm, lookup, fetchVars, locateVars>>

\* Lines 127-143: the keys of a set come in no fixed order.
RkcAlias ==
    /\ rkc.pc = "aliases"
    /\ rkc.todo # {}
    /\ \E countrycode \in rkc.todo :
         LET st == AliasStep(Only(rkc, DOMAIN RkcStart), countrycode)
         IN  rkc' = [pc |-> IF st.exc # "" THEN "raised" ELSE "aliases",
                     todo |-> rkc.todo \ {countrycode}] @@ st @@ rkc
    /\ UNCHANGED <<gm, lookup, fetchVars, locateVars>>

\* Line 145: return country_dict.
RkcReturn ==
    /\ rkc.pc = "aliases"
    /\ rkc.todo = {}
    /\ rkc' = [rkc EXCEPT !.pc = "done"]
    /\ UNCHANGED <<gm, lookup, fetchVars, locateVars>>

NoValue == [none |-> TRUE]

\* self.countries[key] on the dict read_known_countries returned
\* (Locator.locate, lines 472 and 480): the record, or KeyError.
DictGetItem(recs, country_dict, key) ==
    IF key \in DOMAIN country_dict
    THEN [exc |-> "", value |-> recs[country_dict[key]],
          country_dict |-> country_dict]
    ELSE [exc |-> "KeyError", value |-> NoValue, country_dict |-> country_dict]

\* The keys a caller looks up: codes and names, known or not.
LookupKeys == {Str("NL"), Str("Holland"), Str("XX"), Str("Atlantis")}

RkcLookup ==
    /\ rkc.pc = "done"
    /\ \E key \in LookupKeys :
         LET r == DictGetItem(rkc.recs, rkc.country_dict, key)
         IN  /\ lookup' = [registry |-> "dict", key |-> key, exc |-> r.exc,
                           value |-> r.value]
             /\ rkc' = [rkc EXCEPT !.country_dict = r.country_dict]
    /\ UNCHANGED <<gm, fetchVars, locateVars>>

----------------------------------------------------------------------------
(* generate_map.py: classify_countries and countrylist *)

\* Rows of geography/countries.csv as generate_map.py reads them: the name
\* is in the column 'country', the aliases are one ';'-joined text (here
\* the list of its parts), and the column 'aliases' may be missing.
GmNL == ("iso-2" :> Str("NL")) @@ ("iso-3" :> Str("NLD")) @@
        [country |-> Str("Netherlands"), aliases |-> <<Str("Holland")>>,
         eu_member_status |-> Str("EU member")]
GmCH == ("iso-2" :> Str("CH")) @@ ("iso-3" :> Str("CHE")) @@
        [country |-> Str("Switzerland"),
         eu_member_status |-> Str("Council of Europe")]

GmLists == SubSeqs(<<GmNL, GmCH>>)

\* One pass of `for country in country_list` (lines 549-566).
ClassifyRowStep(st, country) ==
    LET status == country.eu_member_status
        in_eu == status \in {Str("EU member"), Str("H2020 Associated Country")}
        c1 == Put(country, "in_eu", in_eu)
        idx == Len(st.recs) + 1
        d1 == Put(Put(Put(st.country_dict, c1["iso-2"], idx),
                      c1["iso-3"], idx), c1.country, idx)
    IN  IF "aliases" \in DOMAIN c1
        THEN [st EXCEPT !.recs = Append(@, c1),
                        !.country_dict = PutAliases(d1, c1.aliases, idx)]
        ELSE [st EXCEPT !.recs = Append(@, c1), !.country_dict = d1]

RECURSIVE ClassifyCountries(_, _)
ClassifyCountries(st, country_list) ==
    IF country_list = <<>> THEN st
    ELSE ClassifyCountries(ClassifyRowStep(st, Head(country_list)),
                           Tail(country_list))

\* Mutant: a key that is missing is stored with its placeholder, as a
\* defaultdict does.
CountrylistGetItemStores(recs, country_dict, key) ==
    IF key \in DOMAIN country_dict
    THEN [exc |-> "", value |-> recs[country_dict[key]], recs |-> recs,
          country_dict |-> country_dict]
    ELSE [exc |-> "", value |-> [name |-> key, in_eu |-> FALSE],
          recs |-> Append(recs, [name |-> key, in_eu |-> FALSE]),
          country_dict |-> Put(country_dict, key, Len(recs) + 1)]

\* countries[key] on a countrylist: the record, or what __missing__
\* returns (lines 536-539).
CountrylistGetItem(recs, country_dict, key) ==
    IF key \in DOMAIN country_dict
    THEN [exc |-> "", value |-> recs[country_dict[key]], recs |-> recs,
          country_dict |-> country_dict]
    ELSE [exc |-> "", value |-> [name |-> key, in_eu |-> FALSE],
          recs |-> recs, country_dict |-> country_dict]

\* countries = classify_countries(get_tsv(COUNTRIES_PATH)); generate_map
\* is a script of its own, run here once read_known_countries has ended.
GmClassify ==
    /\ rkc.pc \in {"done", "raised"}
    /\ ~gm.built
    /\ \E country_list \in GmLists :
         gm' = [built |-> TRUE] @@
               ClassifyCountries([recs |-> <<>>, country_dict |-> EmptyDict],
                                 country_list)
    /\ UNCHANGED <<rkc, lookup, fetchVars, locateVars>>

GmLookup ==
    /\ gm.built
    /\ \E key \in LookupKeys :
         LET r == CountrylistGetItem(gm.recs, gm.country_dict, key)
         IN  /\ lookup' = [registry |-> "countrylist", key |-> key,
                           exc |-> r.exc, value |-> r.value]
             /\ gm' = [gm EXCEPT !.recs = r.recs,
                                 !.country_dict = r.country_dict]
    /\ UNCHANGED <<rkc, fetchVars, locateVars>>

CountryNext ==
    \/ RkcLocal
    \/ RkcUnsd
    \/ RkcIso
    \/ RkcAlias
    \/ RkcReturn
    \/ RkcLookup
    \/ GmClassify
    \/ GmLookup

----------------------------------------------------------------------------
(* geolocator.py: texts that are compared letter by letter *)

\* The letters of the town names and code-list names of the model.
Chars ==
    ("Amsterdam" :> <<"A", "m", "s", "t", "e", "r", "d", "a", "m">>) @@
    ("Greenwich" :> <<"G", "r", "e", "e", "n", "w", "i", "c", "h">>) @@
    ("Tokyo" :> <<"T", "o", "k", "y", "o">>) @@
    ("Zwolle" :> <<"Z", "w", "o", "l", "l", "e">>) @@
    ("ZWOLLE" :> <<"Z", "W", "O", "L", "L", "E">>) @@
    ("Urk" :> <<"U", "r", "k">>) @@
    ("Delft" :> <<"D", "e", "l", "f", "t">>) @@
    ("Zwole" :> <<"Z", "w", "o", "l", "e">>) @@
    ("Oud-Zwolle" :> <<"O", "u", "d", "-", "Z", "w", "o", "l", "l", "e">>) @@
    ("Nieuwerkerk aan den IJssel" :>
        <<"N", "i", "e", "u", "w", "e", "r", "k", "e", "r", "k", " ", "a",
          "a", "n", " ", "d", "e", "n", " ", "I", "J", "s", "s", "e", "l">>) @@
    ("Nieuwerkerk a/d IJssel" :>
        <<"N", "i", "e", "u", "w", "e", "r", "k", "e", "r", "k",
          " ", "a", "/", "d", " ", "I", "J", "s", "s", "e", "l">>) @@
    ("Nieuwerkerk ad den IJssl" :>
        <<"N", "i", "e", "u", "w", "e", "r", "k", "e", "r", "k", " ",
          "a", "d", " ", "d", "e", "n", " ", "I", "J", "s", "s", "l">>) @@
    ("Nieuwerkerk ad IJssel" :>
        <<"N", "i", "e", "u", "w", "e", "r", "k", "e", "r", "k", " ",
          "a", "d", " ", "I", "J", "s", "s", "e", "l">>)

ToLower ==
    ("A" :> "a") @@ ("D" :> "d") @@ ("E" :> "e") @@ ("G" :> "g") @@ ("I" :> "i") @@
    ("J" :> "j") @@ ("L" :> "l") @@ ("N" :> "n") @@ ("O" :> "o") @@ ("T" :> "t") @@
    ("U" :> "u") @@ ("W" :> "w") @@ ("Z" :> "z")

\* s.lower()
Lower(s) == [i \in 1..Len(s) |-> IF s[i] \in DOMAIN ToLower THEN ToLower[s[i]]
                                 ELSE s[i]]

\* The candidates of SequenceMatcher.find_longest_match over a[alo..ahi],
\* b[blo..bhi]: the blocks <<i, j, k>> with a[i..i+k-1] = b[j..j+k-1].
MatchingBlocks(a, b, alo, ahi, blo, bhi) ==
    {m \in (alo..ahi) \X (blo..bhi) \X (1..Len(a)) :
        /\ m[3] <= ahi - m[1] + 1
        /\ m[3] <= bhi - m[2] + 1
        /\ SubSeq(a, m[1], m[1] + m[3] - 1) = SubSeq(b, m[2], m[2] + m[3] - 1)}

\* The longest block; of those the one that starts earliest in a, and of
\* those the one that starts earliest in b.
FindLongestMatch(blocks) ==
    CHOOSE m \in blocks :
        \A n \in blocks :
            \/ n[3] < m[3]
            \/ n[3] = m[3] /\ m[1] < n[1]
            \/ n[3] = m[3] /\ m[1] = n[1] /\ m[2] <= n[2]

\* The sum of the sizes of SequenceMatcher.get_matching_blocks(): the longest
\* match m, then the same to its left and to its right.
RECURSIVE Matches(_, _, _, _, _, _)
MatchesAround(a, b, alo, ahi, blo, bhi, m) ==
    m[3] + Matches(a, b, alo, m[1] - 1, blo, m[2] - 1)
         + Matches(a, b, m[1] + m[3], ahi, m[2] + m[3], bhi)

Matches(a, b, alo, ahi, blo, bhi) ==
    IF MatchingBlocks(a, b, alo, ahi, blo, bhi) = {} THEN 0
    ELSE MatchesAround(a, b, alo, ahi, blo, bhi,
                       FindLongestMatch(MatchingBlocks(a, b, alo, ahi, blo, bhi)))

\* SequenceMatcher.ratio(): 2.0 * matches / (len(a) + len(b)), as the
\* fraction num / den; 1.0 for two empty texts.
Ratio(a, b) ==
    IF Len(a) + Len(b) = 0 THEN [num |-> 1, den |-> 1]
    ELSE [num |-> 2 * Matches(a, b, 1, Len(a), 1, Len(b)),
          den |-> Len(a) + Len(b)]

\* max(x, y) of two fractions
MaxRatio(x, y) == IF x.num * y.den >= y.num * x.den THEN x ELSE y

\* Mutant: the thresholds are inclusive.
AtOrAbove(similarity, percent) == similarity.num * 100 >= percent * similarity.den

\* similarity > percent / 100
Above(similarity, percent) == similarity.num * 100 > percent * similarity.den

----------------------------------------------------------------------------
(* geolocator.py: the files of the Locator *)

\* d.get(k)
Get(d, k) == IF k \in DOMAIN d THEN d[k] ELSE PyNone

\* Rows of geography/known_locations.csv as get_tsv returns them: every
\* column is a text; the identifier columns are given as the parts between
\* the ';' ('' splits into the one part '').
PlaceRow(unlocode, countrycode, town, long, lat, top500_id, meril_id, source) ==
    [unlocode |-> Str(unlocode), countrycode |-> Str(countrycode),
     town |-> Str(town), long |-> Str(long), lat |-> Str(lat),
     top500_id |-> top500_id, meril_id |-> meril_id, source |-> Str(source)]

PlaceAms == PlaceRow("NL AMS", "NL", "Amsterdam", "4.9000", "52.3700",
                     <<"1">>, <<"">>, "")
PlaceGrw == PlaceRow("GB GRW", "GB", "Greenwich", "-0.0015", "51.4800",
                     <<"">>, <<"">>, "local")
\* A place that is known by its identifier and has no coordinates.
PlaceDft == PlaceRow("", "NL", "Delft", "", "", <<"">>, <<"3">>, "local")

\* The file holds the three places, or the first only.
PlaceFiles == {<<PlaceAms, PlaceGrw, PlaceDft>>, <<PlaceAms>>}

\* int(id) of the identifier texts of the model.
IntOf == ("1" :> 1) @@ ("2" :> 2) @@ ("3" :> 3) @@ ("4" :> 4) @@ ("5" :> 5)

\* [int(id) for id in place[key].split(';') if id]
ParseIds(parts) ==
    LET nonempty(id) == id # ""
        ids == SelectSeq(parts, nonempty)
    IN  [i \in 1..Len(ids) |-> IntOf[ids[i]]]

\* Rows of the UN/LOCODE code list, in the order of its three parts, with
\* the columns that are used.
Locode(country, place, name, ascii, geo84) ==
    [country |-> Str(country), place |-> Str(place), name |-> name,
     ascii |-> ascii, geo84 |-> geo84]

LocodeZwo == Locode("NL", "ZWO", "Zwolle", "Zwolle",
                    <<"5", "2", "3", "1", "N", " ", "0", "0", "6", "0", "5", "E">>)
\* An entry without coordinates.
LocodeUrk == Locode("NL", "URK", "Urk", "Urk", <<>>)
LocodeTyo == Locode("JP", "TYO", "Tokyo", "Tokyo",
                    <<"3", "5", "4", "2", "N", " ", "1", "3", "9", "4", "6", "E">>)

\* Two entries that are near other names; the second has an 'ascii' that
\* differs from its 'name'.
LocodeOzw == Locode("NL", "OZW", "Oud-Zwolle", "Oud-Zwolle",
                    <<"5", "2", "3", "0", "N", " ", "0", "0", "6", "0", "6", "E">>)
LocodeNwk == Locode("NL", "NWK", "Nieuwerkerk aan den IJssel",
                    "Nieuwerkerk a/d IJssel",
                    <<"5", "1", "5", "8", "N", " ", "0", "0", "4", "3", "7", "E">>)

\* A second entry for a town of the list, under another spelling.
LocodeNwi == Locode("NL", "NWI", "Nieuwerkerk ad IJssel",
                    "Nieuwerkerk ad IJssel",
                    <<"5", "1", "5", "7", "N", " ", "0", "0", "4", "3", "6", "E">>)

\* An entry on the prime meridian.
LocodeGrw == Locode("GB", "GRW", "Greenwich", "Greenwich",
                    <<"5", "1", "2", "9", "N", " ", "0", "0", "0", "0", "0", "W">>)

UnlocodeRows == <<LocodeZwo, LocodeUrk, LocodeGrw, LocodeTyo>>

\* locode['country'] + ' ' + locode['place']
UnlocodeOf == (<<"NL", "ZWO">> :> "NL ZWO") @@ (<<"NL", "URK">> :> "NL URK") @@
              (<<"JP", "TYO">> :> "JP TYO") @@ (<<"NL", "OZW">> :> "NL OZW") @@
              (<<"NL", "NWK">> :> "NL NWK") @@ (<<"NL", "NWI">> :> "NL NWI") @@ (<<"GB", "GRW">> :> "GB GRW")

\* The countries.csv of the model also has the column 'country' that
\* generate_map.py reads; the records made from the UNSD and ISO 3166 files
\* have no such key.
LocalNLCountry == Put(LocalNL, "country", Str("Netherlands"))

\* A second country of countries.csv, of the EU when the code list was made.
LocalGBCountry ==
    ("iso-2" :> Str("GB")) @@ ("iso-3" :> Str("GBR")) @@
    [name |-> Str("United Kingdom"), aliases |-> <<Str("UK")>>,
     eu_member_status |-> Str("EU member"), country |-> Str("United Kingdom")]

\* Lines 125-143 for files in which no two countries share a name: every
\* order of the keys gives the same mapping.
RECURSIVE AliasLoop(_, _)
AliasLoop(st, todo) ==
    IF todo = {} \/ st.exc # "" THEN st
    ELSE LET countrycode == CHOOSE k \in todo : TRUE
         IN  AliasLoop(AliasStep(st, countrycode), todo \ {countrycode})

\* read_known_countries() on the files local, unsd, iso.
ReadKnownCountries(local, unsd, iso) ==
    LET st == IsoLoop(UnsdLoop(LocalLoop(RkcStart, local), unsd), iso)
    IN  [pc |-> "done", local |-> local, unsd |-> unsd, iso |-> iso,
         todo |-> {}] @@ AliasLoop(st, DOMAIN st.country_dict)

\* self.countries of the Locator of the model.
KnownCountries ==
    ReadKnownCountries(<<LocalNLCountry, LocalGBCountry>>, <<UnsdJP, UnsdNL>>,
                       <<IsoJP, IsoNL>>)

\* [k for k, v in self.countries.items() if v['in_eu']]
EuCountries(reg) ==
    {k \in DOMAIN reg.country_dict : reg.recs[reg.country_dict[k]].in_eu}

\* get_unlocodes(countryfilter) with the filter of filter_factory: the rows
\* whose 'country' is one of the given countries.
GetUnlocodes(countries) ==
    LET country_filter(place) == place.country \in countries
    IN  SelectSeq(UnlocodeRows, country_filter)

----------------------------------------------------------------------------
(* geolocator.py: Locator.__init__ *)

\* The places, with the identifier texts made lists of int.
InitPlaces(rows) ==
    [i \in 1..Len(rows) |->
        [rows[i] EXCEPT !.top500_id = ParseIds(@), !.meril_id = ParseIds(@)]]

\* self.place_by_<key>[int(id)] = place, for the places in list order: the
\* last place that carries an identifier is the one the index keeps.
IndexBy(places, key) ==
    LET ids == UNION {{places[i][key][n] : n \in 1..Len(places[i][key])} :
                      i \in 1..Len(places)}
        holders(id) == {i \in 1..Len(places) : InList(id, places[i][key])}
    IN  [id \in ids |-> CHOOSE i \in holders(id) : \A j \in holders(id) : j <= i]

\* The Locator after construction: its places (each one object, named by
\* its position in the list), the two indexes, the dirty flag, the code list
\* (locodes: None until it is loaded).
NewLocator(rows) ==
    LET places == InitPlaces(rows)
    IN  [places |-> places,
         place_by_top500_id |-> IndexBy(places, "top500_id"),
         place_by_meril_id |-> IndexBy(places, "meril_id"),
         modified_places |-> FALSE,
         locodes |-> [loaded |-> FALSE, rows |-> <<>>]]

----------------------------------------------------------------------------
(* geolocator.py: the lookup strategies of the Locator *)

\* Mutant: a place without coordinates is passed over, as if the
\* identifier were not known.
GetKnownPlaceByIdContinues(L, index, identifier) ==
    IF /\ ~Falsy(identifier)
       /\ identifier[2] \in DOMAIN index
       /\ ~(Falsy(L.places[index[identifier[2]]].long)
            /\ Falsy(L.places[index[identifier[2]]].lat))
    THEN [exc |-> "", idx |-> index[identifier[2]]]
    ELSE [exc |-> "", idx |-> 0]

\* _get_known_place_by_top500_id, _get_known_place_by_meril_id: the place
\* of the index (its position), 0 for None, or UnkownLocation for a place
\* that has neither longitude nor latitude.
GetKnownPlaceById(L, index, identifier) ==
    IF ~Falsy(identifier) /\ identifier[2] \in DOMAIN index
    THEN LET place == L.places[index[identifier[2]]]
         IN  IF Falsy(place.long) /\ Falsy(place.lat)
             THEN [exc |-> "UnkownLocation", idx |-> 0]
             ELSE [exc |-> "", idx |-> index[identifier[2]]]
    ELSE [exc |-> "", idx |-> 0]

\* _get_known_place: the first place with this country code and town.
GetKnownPlace(L, countrycode, town) ==
    LET hits == {i \in 1..Len(L.places) :
                    /\ L.places[i].countrycode = countrycode
                    /\ L.places[i].town = town}
    IN  IF hits = {} THEN 0 ELSE CHOOSE i \in hits : \A j \in hits : i <= j

DigitVal == ("0" :> 0) @@ ("1" :> 1) @@ ("2" :> 2) @@ ("3" :> 3) @@
            ("4" :> 4) @@ ("5" :> 5) @@ ("6" :> 6) @@ ("7" :> 7) @@
            ("8" :> 8) @@ ("9" :> 9)

\* \w of the regular expression (\d: a character of DOMAIN DigitVal)
IsWord(c) == c \in DOMAIN DigitVal \/ c \in {"N", "S", "E", "W", "X", "_"}

\* degrees + minutes / 60, rounded to 1/10000 degree
Degrees(d, m) == d * 10000 + (m * 20000 + 60) \div 120

\* _parse_geo84: re.match(r'(\d\d)(\d\d)(\w) (\d\d\d)(\d\d)(\w)', geocode);
\* the result is (long, lat), or (None, None).
ParseGeo84(geocode) ==
    IF /\ Len(geocode) >= 12
       /\ \A i \in {1, 2, 3, 4, 7, 8, 9, 10, 11} : geocode[i] \in DOMAIN DigitVal
       /\ IsWord(geocode[5])
       /\ geocode[6] = " "
       /\ IsWord(geocode[12])
    THEN LET g(i) == DigitVal[geocode[i]]
             lat == (IF geocode[5] = "N" THEN 1 ELSE -1)
                    * Degrees(10 * g(1) + g(2), 10 * g(3) + g(4))
             long == (IF geocode[12] = "E" THEN 1 ELSE -1)
                     * Degrees(100 * g(7) + 10 * g(8) + g(9), 10 * g(10) + g(11))
         IN  [long |-> Float(long), lat |-> Float(lat)]
    ELSE [long |-> PyNone, lat |-> PyNone]

\* generate_map.py, _parse_geo84: the same expression, with the value of
\* the first group of digits named long and that of the second named lat;
\* the result is (long, lat).
GmParseGeo84(geocode) ==
    IF /\ Len(geocode) >= 12
       /\ \A i \in {1, 2, 3, 4, 7, 8, 9, 10, 11} : geocode[i] \in DOMAIN DigitVal
       /\ IsWord(geocode[5])
       /\ geocode[6] = " "
       /\ IsWord(geocode[12])
    THEN LET g(i) == DigitVal[geocode[i]]
             long == (IF geocode[5] = "N" THEN 1 ELSE -1)
                     * Degrees(10 * g(1) + g(2), 10 * g(3) + g(4))
             lat == (IF geocode[12] = "E" THEN 1 ELSE -1)
                    * Degrees(100 * g(7) + 10 * g(8) + g(9), 10 * g(10) + g(11))
         IN  [long |-> Float(long), lat |-> Float(lat)]
    ELSE [long |-> PyNone, lat |-> PyNone]

\* fuzzymatcher.ratio() for the texts of the model, in lower case.
SimilarityOf ==
    [town \in DOMAIN Chars, name \in DOMAIN Chars |->
        Ratio(Lower(Chars[town]), Lower(Chars[name]))]

\* The similarity of a town and a code-list entry (lines 316-319): the
\* larger of the ratios with the entry's 'ascii' and 'name'.
Similarity(town, locode) ==
    MaxRatio(SimilarityOf[town, locode.ascii], SimilarityOf[town, locode.name])

\* The place made from a code-list entry (lines 321-336); None when the
\* entry has no coordinates.
PlaceOfLocode(locode, geo) ==
    IF geo.long = PyNone THEN NoValue
    ELSE [unlocode |-> Str(UnlocodeOf[<<locode.country[2], locode.place[2]>>]),
          countrycode |-> locode.country,
          town |-> Str(locode.name),
          long |-> geo.long, lat |-> geo.lat,
          top500_id |-> <<>>, meril_id |-> <<>>,
          source |-> Str("unlocode")]

\* What the loop of _search_locode has done so far: the entries whose
\* similarity was computed, and those logged as a possible match.
NoScan == [examined |-> <<>>, possible |-> <<>>]

\* return place (lines 321-336), return None (line 341)
Scanned(place, log, locode) ==
    [place |-> place, possible |-> log.possible,
     examined |-> IF locode = NoValue THEN log.examined
                  ELSE Append(log.examined, locode)]

\* Lines 337-340: an entry that is not accepted is logged when its
\* similarity is above 0.75.
LogPossible(log, locode, similarity) ==
    [examined |-> Append(log.examined, locode),
     possible |-> IF Above(similarity, 75) THEN Append(log.possible, locode)
                  ELSE log.possible]

\* The loop of _search_locode (lines 314-341): the place made from the
\* first entry of the country whose similarity is above 0.92, None when
\* there is no such entry.
RECURSIVE ScanLocodes(_, _, _, _)
\* Mutant: the scan goes on after an accepted entry and returns the last
\* accepted one.
ScanEntryLast(rows, countrycode, town, log, similarity) ==
    IF Above(similarity, 92)
          /\ ScanLocodes(Tail(rows), countrycode, town,
                         LogPossible(log, Head(rows), similarity)).place
                = NoValue
    THEN Scanned(PlaceOfLocode(Head(rows), ParseGeo84(Head(rows).geo84)),
                 log, Head(rows))
    ELSE ScanLocodes(Tail(rows), countrycode, town,
                     LogPossible(log, Head(rows), similarity))

ScanEntry(rows, countrycode, town, log, similarity) ==
    IF Above(similarity, 92)
    THEN Scanned(PlaceOfLocode(Head(rows), ParseGeo84(Head(rows).geo84)),
                 log, Head(rows))
    ELSE ScanLocodes(Tail(rows), countrycode, town,
                     LogPossible(log, Head(rows), similarity))

ScanLocodes(rows, countrycode, town, log) ==
    IF rows = <<>> THEN Scanned(NoValue, log, NoValue)
    ELSE IF Head(rows).country # countrycode
    THEN ScanLocodes(Tail(rows), countrycode, town, log)
    ELSE ScanEntry(rows, countrycode, town, log,
                   Similarity(town[2], Head(rows)))

\* if not self.locodes: self.locodes = self.get_unlocodes(countryfilter)
LoadLocodes(L, reg) ==
    IF ~L.locodes.loaded \/ L.locodes.rows = <<>>
    THEN [loaded |-> TRUE, rows |-> GetUnlocodes(EuCountries(reg))]
    ELSE L.locodes

ScanLoaded(locodes, scan) ==
    [locodes |-> locodes, place |-> scan.place, possible |-> scan.possible,
     examined |-> scan.examined]

SearchLocodeIn(locodes, countrycode, town) ==
    ScanLoaded(locodes, ScanLocodes(locodes.rows, countrycode, town, NoScan))

\* _search_locode: the code list is loaded when self.locodes is None or
\* empty, then scanned.
SearchLocode(L, reg, countrycode, town) ==
    SearchLocodeIn(LoadLocodes(L, reg), countrycode, town)

\* What the geocoding service answers: no answer, a result, an empty list,
\* a JSON document that is no list (an error message), an HTML page.
OsmOutcomes ==
    {[kind |-> "requests.ConnectionError", status |-> 0, url |-> UrlOsm,
      text |-> ""]}
    \cup {[kind |-> "response", status |-> 200, url |-> UrlOsm, text |-> p] :
            p \in {"osm_hit", "osm_empty", "json"}}
    \cup {[kind |-> "response", status |-> 404, url |-> UrlOsm, text |-> "html"]}

\* float(result["lon"]), float(result["lat"]) of the first result.
OsmLon == Float(47800)
OsmLat == Float(515900)

\* result = json.loads(data) and the place made from result[0]
\* (lines 352-368); r is the call of get_uncached_url.
OsmPlace(countrycode, town, r) ==
    IF r.exc # "" THEN [exc |-> r.exc, place |-> NoValue, call |-> r]
    ELSE IF Decode("json.loads", r.data).exc # ""
    THEN [exc |-> Decode("json.loads", r.data).exc, place |-> NoValue,
          call |-> r]
    ELSE IF r.data = "osm_empty"
    THEN [exc |-> "", place |-> NoValue, call |-> r]
    ELSE IF r.data # "osm_hit"
    THEN [exc |-> "KeyError", place |-> NoValue, call |-> r]
    ELSE [exc |-> "", call |-> r,
          place |-> [unlocode |-> Str(""), countrycode |-> countrycode,
                     town |-> town, long |-> OsmLon, lat |-> OsmLat,
                     top500_id |-> <<>>, meril_id |-> <<>>,
                     source |-> Str("osm")]]

\* _get_location_from_osm: the request, json.loads, the first result.
GetLocationFromOsm(c, t, countrycode, town, net) ==
    OsmPlace(countrycode, town, GetUncachedUrl(c, t, UrlOsm, net))

\* if not place['source']: place['source'] = 'local'
SourceLocal(L, idx) ==
    IF Falsy(L.places[idx].source)
    THEN [L EXCEPT !.places[idx].source = Str("local")]
    ELSE L

\* Mutant: the identifier is appended also when the list holds it.
AppendIdentifierAgain(place, location, key) ==
    LET identifier == Get(location, key)
    IN  IF ~Falsy(identifier)
        THEN [place EXCEPT ![key] = Append(@, identifier[2])]
        ELSE place

\* One pass of the loop of add_place: the identifier of the location is
\* appended to the list of the place unless it is there.
AppendIdentifier(place, location, key) ==
    LET identifier == Get(location, key)
    IN  IF ~Falsy(identifier) /\ ~InList(identifier[2], place[key])
        THEN [place EXCEPT ![key] = Append(@, identifier[2])]
        ELSE place

\* Lines 203-206: the place is appended unless the list holds a place with
\* the same contents (`place not in self.places` compares dicts by ==);
\* p is the place after the loop over its identifiers.
AppendIfNew(L, place, p, places) ==
    [locator |-> [L EXCEPT !.places = IF InList(p, places) THEN places
                                      ELSE Append(places, p),
                           !.modified_places = @ \/ p # place
                                                 \/ ~InList(p, places)],
     place |-> p]

AddPlaceWithIds(L, place, idx, p) ==
    AppendIfNew(L, place, p,
                IF idx > 0 THEN [L.places EXCEPT ![idx] = p] ELSE L.places)

\* add_place(place, location); idx is the position of the place in
\* self.places, 0 for a place that was just made.
AddPlace(L, place, idx, location) ==
    AddPlaceWithIds(L, place, idx,
        AppendIdentifier(AppendIdentifier(place, location, "top500_id"),
                         location, "meril_id"))

\* What _get_place ends in: the Locator after it, the exception, the place
\* (None: NoValue), the strategy that ended it, and whether a request was
\* sent to the geocoding service.
PlaceResult(L, exc, place, strategy, osm) ==
    [locator |-> L, exc |-> exc, place |-> place, strategy |-> strategy,
     requested |-> osm # NoValue, osm |-> osm]

\* return place, for the place at idx of self.places
FoundAt(L, idx, strategy) == PlaceResult(L, "", L.places[idx], strategy, NoValue)

\* return place, after add_place(place, location)
Added(add, strategy, osm) ==
    PlaceResult(add.locator, "", add.place, strategy, osm)

\* Lines 437-444: the geocoding service; osm is what it ended in.
ByOsm(L, location, osm) ==
    IF osm.exc # "" THEN PlaceResult(L, osm.exc, NoValue, "osm", osm.call)
    ELSE IF osm.place = NoValue THEN PlaceResult(L, "", NoValue, "osm", osm.call)
    ELSE Added(AddPlace(L, osm.place, 0, location), "osm", osm.call)

\* Lines 431-435: the code list; found is what _search_locode returned and
\* L the Locator with the code list loaded.
ByLocode(L, location, c, t, net, found) ==
    IF /\ found # NoValue
       /\ ~Falsy(found.lat)
       /\ ~Falsy(found.long)
    THEN Added(AddPlace(L, found, 0, location), "unlocode", NoValue)
    ELSE ByOsm(L, location,
               GetLocationFromOsm(c, t, location.countrycode, location.town, net))

LocodesLoaded(L, reg, location, c, t, net, search) ==
    ByLocode([L EXCEPT !.locodes = search.locodes], location, c, t, net,
             search.place)

\* Lines 423-428: the known places; known is what _get_known_place returned.
ByTown(L, reg, location, c, t, net, known) ==
    IF known > 0
    THEN Added(AddPlace(SourceLocal(L, known),
                        SourceLocal(L, known).places[known], known, location),
               "known", NoValue)
    ELSE LocodesLoaded(L, reg, location, c, t, net,
            SearchLocode(L, reg, location.countrycode, location.town))

\* Lines 411-420: the MERIL identifier, then the town.
ByMeril(L, reg, location, c, t, net, meril) ==
    IF meril.exc # "" THEN PlaceResult(L, meril.exc, NoValue, "meril_id", NoValue)
    ELSE IF meril.idx > 0
    THEN FoundAt(SourceLocal(L, meril.idx), meril.idx, "meril_id")
    ELSE IF Falsy(Get(location, "town"))
    THEN PlaceResult(L, "UnkownLocation", NoValue, "none", NoValue)
    ELSE ByTown(L, reg, location, c, t, net,
                GetKnownPlace(L, location.countrycode, location.town))

\* Lines 405-409: the Top 500 identifier.
ByTop500(L, reg, location, c, t, net, top500) ==
    IF top500.exc # ""
    THEN PlaceResult(L, top500.exc, NoValue, "top500_id", NoValue)
    ELSE IF top500.idx > 0
    THEN FoundAt(SourceLocal(L, top500.idx), top500.idx, "top500_id")
    ELSE ByMeril(L, reg, location, c, t, net,
                 GetKnownPlaceById(L, L.place_by_meril_id,
                                   Get(location, "meril_id")))

\* _get_place(location)
GetPlace(L, reg, location, c, t, net) ==
    ByTop500(L, reg, location, c, t, net,
             GetKnownPlaceById(L, L.place_by_top500_id,
                               Get(location, "top500_id")))

\* if place.get(name) and not location.get(name):
\*     location[name] = place[name]
AugmentField(location, place, name) ==
    IF ~Falsy(Get(place, name)) /\ Falsy(Get(location, name))
    THEN Put(location, name, place[name])
    ELSE location

\* _augment(location, place)
RECURSIVE AugmentNames(_, _, _)
AugmentNames(location, place, names) ==
    IF names = <<>> THEN location
    ELSE AugmentNames(AugmentField(location, place, Head(names)), place,
                      Tail(names))

Augment(location, place) ==
    AugmentNames(location, place,
                 <<"unlocode", "country", "countrycode", "town", "long", "lat">>)

\* Lines 480-485: location['countrycode'] = country['iso-2']; byname is
\* what self.countries[location['country']] gave.
CodeOf(location, byname) ==
    IF byname.exc = "KeyError"
    THEN [exc |-> "UnkownLocation", location |-> location]
    ELSE [exc |-> "", location |-> Put(location, "countrycode",
                                       byname.value["iso-2"])]

\* Lines 478-485.
CodeFromCountry(reg, location) ==
    IF ~Falsy(Get(location, "countrycode"))
    THEN [exc |-> "", location |-> location]
    ELSE CodeOf(location,
                DictGetItem(reg.recs, reg.country_dict, location.country))

\* Lines 471-477: location['country'] = country['country']; bycode is what
\* self.countries[location['countrycode']] gave.
CountryFromCode(reg, location, bycode) ==
    IF bycode.exc = "KeyError"
    THEN [exc |-> "UnkownLocation", location |-> location]
    ELSE IF "country" \notin DOMAIN bycode.value
    THEN [exc |-> "KeyError", location |-> location]
    ELSE CodeFromCountry(reg, Put(location, "country", bycode.value.country))

\* Lines 466-485 of locate: country and country code, each from the other.
Normalize(reg, location) ==
    IF ~Falsy(Get(location, "country")) THEN CodeFromCountry(reg, location)
    ELSE IF Falsy(Get(location, "countrycode"))
    THEN [exc |-> "UnkownLocation", location |-> location]
    ELSE CountryFromCode(reg, location,
            DictGetItem(reg.recs, reg.country_dict, location.countrycode))

\* What locate ends in: the Locator and the location after the call, the
\* exception ("" when it returns), and what _get_place did.
LocateResult(L, location, exc, got) ==
    [locator |-> L, location |-> location, exc |-> exc,
     place |-> got.place, strategy |-> got.strategy,
     requested |-> got.requested, osm |-> got.osm]

\* Lines 490-505; got is what _get_place ended in.
LocateWithPlace(location, got) ==
    IF got.exc # "" THEN LocateResult(got.locator, location, got.exc, got)
    ELSE IF got.place = NoValue
    THEN LocateResult(got.locator, location, "UnkownLocation", got)
    ELSE IF Falsy(Get(got.place, "long"))
    THEN LocateResult(got.locator, location, "UnkownLocation", got)
    ELSE LocateResult(got.locator, Augment(location, got.place), "", got)

LocateNormalized(L, reg, norm, c, t, net) ==
    IF norm.exc # ""
    THEN LocateResult(L, norm.location, norm.exc,
                      PlaceResult(L, "", NoValue, "none", NoValue))
    ELSE LocateWithPlace(norm.location,
                         GetPlace(L, reg, norm.location, c, t, net))

\* locate(location)
LocateOp(L, reg, location, c, t, net) ==
    LocateNormalized(L, reg, Normalize(reg, location), c, t, net)

----------------------------------------------------------------------------
(* geolocator.py: the calls of the Locator *)

\* The location records a caller passes to locate.
Locations ==
    { [countrycode |-> Str("NL"), town |-> Str("Amsterdam")],
      [country |-> Str("Netherlands"), town |-> Str("Amsterdam"),
       top500_id |-> PyInt(5)],
      [countrycode |-> Str("JP"), town |-> Str("Tokyo")],
      [countrycode |-> Str("XX"), town |-> Str("Urk")],
      [town |-> Str("Urk")],
      [country |-> Str("United Kingdom"), countrycode |-> Str("GB"),
       town |-> Str("Greenwich"), long |-> Float(0), lat |-> Float(514800)],
      [country |-> Str("Netherlands"), countrycode |-> Str("NL"),
       town |-> Str("ZWOLLE"), meril_id |-> PyInt(4)],
      [country |-> Str("Netherlands"), countrycode |-> Str("NL"),
       town |-> Str("Urk"), top500_id |-> PyInt(5)],
      [country |-> Str("Netherlands"), countrycode |-> Str("NL"),
       town |-> Str("Delft"), top500_id |-> PyInt(5)],
      [country |-> Str("Netherlands"), countrycode |-> Str("NL"),
       meril_id |-> PyInt(3)],
      [country |-> Str("Netherlands"), countrycode |-> Str("NL"),
       town |-> Str("Amsterdam"), meril_id |-> PyInt(3)],
      [country |-> Str("Netherlands"), countrycode |-> Str("NL"),
       top500_id |-> PyInt(1)],
      [country |-> Str("Netherlands"), countrycode |-> Str("NL"),
       town |-> Str("Amsterdam"), long |-> Float(49000),
       lat |-> Float(523700)] }

NoRes == [op |-> "none"]

\* The Locator after construction: the countries are read, the places are
\* loaded from a file, nothing was located.
LocateInit ==
    /\ rkc = KnownCountries
    /\ gm = [built |-> FALSE, recs |-> <<>>, country_dict |-> EmptyDict]
    /\ lookup = NoLookup
    /\ \E rows \in PlaceFiles :
         /\ locator = NewLocator(rows)
         /\ stored = [rows |-> rows, writes |-> 0]
    /\ res = NoRes

\* The state after a call of locate(location) that ended in r.
Located(location, r) ==
    /\ locator' = r.locator
    /\ res' = [op |-> "locate", location |-> location, after |-> r.location,
               before |-> locator,
               exc |-> r.exc, place |-> r.place, strategy |-> r.strategy,
               requested |-> r.requested]
    /\ call' = IF r.requested
               THEN [op |-> "get_uncached_url"] @@
                    [k \in DOMAIN r.osm \ {"cache"} |-> r.osm[k]]
               ELSE NoCall
    /\ UNCHANGED <<cache, now, rkc, gm, lookup, stored>>

\* locator.locate(location) on a location record of a caller, with what
\* the geocoding service would answer.
Locate ==
    \E location \in Locations, net \in OsmOutcomes :
        Located(location, LocateOp(locator, rkc, location, cache, now, net))

\* locator.locate(location) once more, on the record the call before left.
LocateAgain ==
    /\ res.op = "locate"
    /\ \E net \in OsmOutcomes :
         Located(res.after, LocateOp(locator, rkc, res.after, cache, now, net))

----------------------------------------------------------------------------
(* geolocator.py: Locator.store_known_places and the next run *)

\* How often the file of the places is written in a behaviour.
MaxWrites == 1

\* str(item) of the identifiers of the model.
StrOfInt == (1 :> "1") @@ (2 :> "2") @@ (3 :> "3") @@ (4 :> "4") @@ (5 :> "5")

\* ';'.join([str(item) for item in itemlist]), given as the parts between
\* the ';' that the next split finds: the empty text splits into [''].
JoinIds(itemlist) ==
    IF itemlist = <<>> THEN <<"">>
    ELSE [i \in 1..Len(itemlist) |-> StrOfInt[itemlist[i]]]

Digits == <<"0", "1", "2", "3", "4", "5", "6", "7", "8", "9">>

\* "%d" % n for n >= 0
RECURSIVE DecimalText(_)
DecimalText(n) ==
    IF n < 10 THEN Digits[n + 1]
    ELSE DecimalText(n \div 10) \o Digits[(n % 10) + 1]

\* "%.4f" % item for a float of n/10000
FourDecimals(n) ==
    LET a == IF n < 0 THEN -n ELSE n
        frac == a % 10000
    IN  (IF n < 0 THEN "-" ELSE "") \o DecimalText(a \div 10000) \o "." \o
        Digits[(frac \div 1000) + 1] \o Digits[((frac \div 100) % 10) + 1] \o
        Digits[((frac \div 10) % 10) + 1] \o Digits[(frac % 10) + 1]

\* "%.4f" % (item) if isinstance(item, float) else ''
FormatCoordinate(item) ==
    IF item[1] = "float" THEN Str(FourDecimals(item[2])) ELSE Str("")

\* The texts of the sort keys of the model in the order of Python's str.
TextOrder ==
    <<"", "GB", "GB GRW", "JP", "JP TYO", "NL", "NL AMS", "NL URK", "NL ZWO",
      "Amsterdam", "Delft", "Greenwich", "Tokyo", "Urk", "ZWOLLE", "Zwolle">>

TextRank(text) == CHOOSE i \in 1..Len(TextOrder) : TextOrder[i] = text[2]

\* sort_key(a) < sort_key(b) for
\* sort_key = lambda row: (row['countrycode'], row['unlocode'], row['town'])
SortKeyLess(a, b) ==
    LET ka == <<TextRank(a.countrycode), TextRank(a.unlocode), TextRank(a.town)>>
        kb == <<TextRank(b.countrycode), TextRank(b.unlocode), TextRank(b.town)>>
    IN  \/ ka[1] < kb[1]
        \/ ka[1] = kb[1] /\ ka[2] < kb[2]
        \/ ka[1] = kb[1] /\ ka[2] = kb[2] /\ ka[3] < kb[3]

\* sorted(rows, key=sort_key): rows with equal keys keep their order.
SortRows(rows) ==
    LET before(i, j) == \/ SortKeyLess(rows[i], rows[j])
                        \/ ~SortKeyLess(rows[j], rows[i]) /\ i < j
        rank(i) == 1 + Cardinality({j \in 1..Len(rows) : before(j, i)})
    IN  [k \in 1..Len(rows) |-> rows[CHOOSE i \in 1..Len(rows) : rank(i) = k]]

\* A place as a row of text: each column that has a header type is
\* formatted with it.
FormatRow(place) ==
    [place EXCEPT !.top500_id = JoinIds(@), !.meril_id = JoinIds(@),
                  !.long = FormatCoordinate(@), !.lat = FormatCoordinate(@)]

\* store_tsv(path, rows, header, header_types, sort_key): the rows in the
\* order of the sort key, formatted.
StoreTsv(rows) ==
    LET sorted == SortRows(rows)
    IN  [i \in 1..Len(sorted) |-> FormatRow(sorted[i])]

\* store_known_places(): the file is written whether or not the places
\* were modified (the return of line 214 is a comment), and the flag is
\* cleared.
StoreKnownPlaces ==
    /\ stored.writes < MaxWrites
    /\ stored' = [rows |-> StoreTsv(locator.places),
                  writes |-> stored.writes + 1]
    /\ locator' = [locator EXCEPT !.modified_places = FALSE]
    /\ res' = [op |-> "store_known_places", before |-> locator]
    /\ call' = NoCall
    /\ UNCHANGED <<cache, now, rkc, gm, lookup>>

\* The Locator of the next run is made from the file as it is then.
NextRun ==
    /\ res.op = "store_known_places"
    /\ locator' = NewLocator(stored.rows)
    /\ res' = [op |-> "Locator", before |-> res.before]
    /\ call' = NoCall
    /\ UNCHANGED <<cache, now, rkc, gm, lookup, stored>>

LocateNext ==
    \/ Locate
    \/ LocateAgain

\* The locations that are resolved between the stores: one that adds an
\* identifier to a known place, one that is found in the code list, one
\* that is found by the geocoding service.
StoreLocations ==
    { [country |-> Str("Netherlands"), town |-> Str("Amsterdam"),
       top500_id |-> PyInt(5)],
      [country |-> Str("Netherlands"), countrycode |-> Str("NL"),
       town |-> Str("ZWOLLE"), meril_id |-> PyInt(4)],
      [country |-> Str("Netherlands"), countrycode |-> Str("NL"),
       town |-> Str("Urk"), top500_id |-> PyInt(5)] }

LocateToStore ==
    \E location \in StoreLocations, net \in OsmOutcomes :
        Located(location, LocateOp(locator, rkc, location, cache, now, net))

StoreNext ==
    \/ LocateToStore
    \/ StoreKnownPlaces
    \/ NextRun

----------------------------------------------------------------------------
(* geolocator.py: Locator._search_locode on its own *)

\* The longest code list.
MaxList == 3

\* The entries of the code lists; they are of a country of the EU, as
\* get_unlocodes is called with the filter of self.eu_countries.
FuzzyRows == {LocodeZwo, LocodeOzw, LocodeNwk, LocodeNwi, LocodeUrk}

\* The code lists: up to MaxList different entries in any order.
CodeLists ==
    {rows \in UNION {[1..n -> FuzzyRows] : n \in 1..MaxList} :
        \A i, j \in DOMAIN rows : i # j => rows[i] # rows[j]}

FuzzyTowns == {"Zwolle", "ZWOLLE", "Zwole", "Urk", "Nieuwerkerk ad den IJssl",
               "Nieuwerkerk a/d IJssel"}

\* A Locator whose code list is loaded.
FuzzyInit ==
    /\ rkc = KnownCountries
    /\ gm = [built |-> FALSE, recs |-> <<>>, country_dict |-> EmptyDict]
    /\ lookup = NoLookup
    /\ \E rows \in CodeLists :
         locator = [NewLocator(<<>>) EXCEPT
                       !.locodes = [loaded |-> TRUE, rows |-> rows]]
    /\ res = NoRes
    /\ stored = [rows |-> <<>>, writes |-> 0]

\* The state after self._search_locode(countrycode, town) returned r.
Searched(countrycode, town, r) ==
    /\ locator' = [locator EXCEPT !.locodes = r.locodes]
    /\ res' = [op |-> "_search_locode", countrycode |-> countrycode,
               town |-> town, locodes |-> r.locodes.rows, place |-> r.place,
               possible |-> r.possible, examined |-> r.examined]
    /\ call' = NoCall
    /\ UNCHANGED <<cache, now, rkc, gm, lookup, stored>>

SearchLocodeCall ==
    \E countrycode \in {"NL", "JP"}, town \in FuzzyTowns :
        Searched(Str(countrycode), Str(town),
                 SearchLocode(locator, rkc, Str(countrycode), Str(town)))

FuzzyNext ==
    \/ SearchLocodeCall

----------------------------------------------------------------------------
(* geolocator.py, generate_map.py: Locator._parse_geo84 *)

\* The texts of the column geo84: degrees and minutes of latitude, a
\* letter, a separator, degrees and minutes of longitude, a letter, and
\* what follows.  The degrees of longitude have three digits in the code
\* list; texts with two are in the set as well.
GeoLatDegrees == {<<"5", "2">>, <<"0", "0">>}
GeoLatMinutes == {<<"3", "1">>, <<"0", "0">>, <<"5", "9">>}
GeoLatLetters == {<<"N">>, <<"S">>, <<"X">>}
GeoSeparators == {<<" ">>, <<>>}
GeoLongDegrees == {<<"0", "0", "6">>, <<"1", "3", "9">>, <<"0", "6">>}
GeoLongMinutes == {<<"0", "5">>, <<"4", "6">>}
GeoLongLetters == {<<"E">>, <<"W">>}
GeoTails == {<<>>, <<"?">>}

GeoInit ==
    /\ locator = NewLocator(<<>>)
    /\ res = NoRes
    /\ stored = [rows |-> <<>>, writes |-> 0]

\* The state after self._parse_geo84(geocode) of geolocator.py returned
\* geo and that of generate_map.py returned gmgeo.
Parsed(parts, geocode, geo, gmgeo) ==
    /\ res' = [op |-> "_parse_geo84", parts |-> parts, geocode |-> geocode,
               long |-> geo.long, lat |-> geo.lat,
               gm_long |-> gmgeo.long, gm_lat |-> gmgeo.lat]
    /\ call' = NoCall
    /\ UNCHANGED <<cache, now, rkc, gm, lookup, locator, stored>>

ParseParts(parts) ==
    Parsed(parts, parts[1] \o parts[2] \o parts[3] \o parts[4]
                  \o parts[5] \o parts[6] \o parts[7] \o parts[8],
           ParseGeo84(parts[1] \o parts[2] \o parts[3] \o parts[4]
                      \o parts[5] \o parts[6] \o parts[7] \o parts[8]),
           GmParseGeo84(parts[1] \o parts[2] \o parts[3] \o parts[4]
                        \o parts[5] \o parts[6] \o parts[7] \o parts[8]))

ParseGeo84Call ==
    \E d1 \in GeoLatDegrees, m1 \in GeoLatMinutes, h1 \in GeoLatLetters,
       sep \in GeoSeparators, d2 \in GeoLongDegrees, m2 \in GeoLongMinutes,
       h2 \in GeoLongLetters, tail \in GeoTails :
        ParseParts(<<d1, m1, h1, sep, d2, m2, h2, tail>>)

\* A text without coordinates, as the entries of the code list that have
\* none.
ParseEmptyCall == Parsed(<<>>, <<>>, ParseGeo84(<<>>), GmParseGeo84(<<>>))

GeoNext ==
    \/ ParseGeo84Call
    \/ ParseEmptyCall

----------------------------------------------------------------------------
(* geolocator.py: Locator.locate_and_filter_places *)

\* The largest number of entries of a mapping that is resolved.
MaxBatch == 2

\* The location records of a mapping that is resolved as a whole.
BatchLocations ==
    { [countrycode |-> Str("XX")],
      [countrycode |-> Str("NL"), town |-> Str("Amsterdam")],
      [countrycode |-> Str("JP"), town |-> Str("Tokyo")],
      [country |-> Str("Netherlands"), countrycode |-> Str("NL"),
       town |-> Str("ZWOLLE"), meril_id |-> PyInt(4)],
      [country |-> Str("Netherlands"), countrycode |-> Str("NL"),
       town |-> Str("ZWOLLE"), top500_id |-> PyInt(7)],
      [country |-> Str("Netherlands"), countrycode |-> Str("NL"),
       town |-> Str("Urk"), top500_id |-> PyInt(5)],
      [country |-> Str("Netherlands"), countrycode |-> Str("NL"),
       town |-> Str("Delft")],
      [country |-> Str("Netherlands"), countrycode |-> Str("NL"),
       town |-> Str("Amsterdam"), long |-> Float(49000),
       lat |-> Float(523700)] }

\* A row of the file of places in which only the longitude is filled in.
PlaceDftLong == PlaceRow("", "NL", "Delft", "4.3600", "", <<"">>, <<"">>, "local")

\* The files of places of the runs that resolve a mapping.
BatchPlaceFiles == PlaceFiles \cup {<<PlaceAms, PlaceDftLong>>}

\* The Locator after construction, as LocateInit, on one of these files.
BatchInit ==
    /\ rkc = KnownCountries
    /\ gm = [built |-> FALSE, recs |-> <<>>, country_dict |-> EmptyDict]
    /\ lookup = NoLookup
    /\ \E rows \in BatchPlaceFiles :
         /\ locator = NewLocator(rows)
         /\ stored = [rows |-> rows, writes |-> 0]
    /\ res = NoRes

\* The mappings: locations.items() gives the entries in the order of the
\* sequence, the key of an entry is its position.
Batches == UNION {[1..n -> BatchLocations] : n \in 1..MaxBatch}

\* The loop of lines 525-533 before its first pass; outcome[key] is how the
\* pass of an entry ended: "not run", "skipped", "located", or the
\* exception of locate.
BatchStart(L, locations) ==
    [locator |-> L, locations |-> locations,
     outcome |-> [key \in DOMAIN locations |-> "not run"],
     unlocated_keys |-> {}, exc |-> "", osm |-> NoValue]

\* Lines 528-533: locate ended in r; UnkownLocation is caught, any other
\* exception leaves the loop and the function.
BatchLocated(st, key, r) ==
    [locator |-> r.locator,
     locations |-> [st.locations EXCEPT ![key] = r.location],
     outcome |-> [st.outcome EXCEPT ![key] = IF r.exc = "" THEN "located"
                                             ELSE r.exc],
     unlocated_keys |-> IF r.exc = "UnkownLocation"
                        THEN st.unlocated_keys \cup {key}
                        ELSE st.unlocated_keys,
     exc |-> IF r.exc \in {"", "UnkownLocation"} THEN "" ELSE r.exc,
     osm |-> IF r.requested THEN r.osm ELSE st.osm]

\* One pass of the loop, for the entry at key.
BatchPass(st, reg, key, c, t, net) ==
    IF st.exc # "" THEN st
    ELSE IF /\ ~Falsy(Get(st.locations[key], "long"))
            /\ ~Falsy(Get(st.locations[key], "lat"))
    THEN [st EXCEPT !.outcome[key] = "skipped"]
    ELSE BatchLocated(st, key,
                      LocateOp(st.locator, reg, st.locations[key], c, t, net))

RECURSIVE BatchLoop(_, _, _, _, _, _)
BatchLoop(st, reg, key, c, t, nets) ==
    IF key > Len(st.locations) THEN st
    ELSE BatchLoop(BatchPass(st, reg, key, c, t, nets[key]), reg, key + 1,
                   c, t, nets)

\* Lines 534-535: del locations[key] for the keys that were not located;
\* they are reached only when the loop ended without an exception.
BatchResult(st) ==
    [locator |-> st.locator, after |-> st.locations, outcome |-> st.outcome,
     exc |-> st.exc, osm |-> st.osm,
     kept |-> IF st.exc = "" THEN DOMAIN st.locations \ st.unlocated_keys
              ELSE DOMAIN st.locations]

\* locate_and_filter_places(locations); nets[key] is what the geocoding
\* service would answer to the request for the entry at key.
LocateAndFilterPlacesOp(L, reg, locations, c, t, nets) ==
    BatchResult(BatchLoop(BatchStart(L, locations), reg, 1, c, t, nets))

\* The state after a call of locate_and_filter_places that ended in r.
Filtered(locations, nets, r) ==
    /\ locator' = r.locator
    /\ res' = [op |-> "locate_and_filter_places", locations |-> locations,
               nets |-> nets, before |-> locator, after |-> r.after,
               kept |-> r.kept,
               outcome |-> r.outcome, exc |-> r.exc]
    /\ call' = IF r.osm # NoValue
               THEN [op |-> "get_uncached_url"] @@
                    [k \in DOMAIN r.osm \ {"cache"} |-> r.osm[k]]
               ELSE NoCall
    /\ UNCHANGED <<cache, now, rkc, gm, lookup, stored>>

\* The mapping of a run is resolved once, on the Locator as it was made.
LocateAndFilterPlaces ==
    /\ res.op = "none"
    /\ \E locations \in Batches :
         \E nets \in [DOMAIN locations -> OsmOutcomes] :
            Filtered(locations, nets,
                     LocateAndFilterPlacesOp(locator, rkc, locations, cache,
                                             now, nets))

BatchNext ==
    \/ LocateAndFilterPlaces

----------------------------------------------------------------------------
(* The specifications *)

vars == <<cache, now, call, rkc, gm, lookup, locator, res, stored>>

FetchIdle == cache = [f \in FileNames |-> NoFile] /\ now = 0 /\ call = NoCall

CountryIdle ==
    /\ rkc = [pc |-> "idle", local |-> <<>>, unsd |-> <<>>, iso |-> <<>>,
              todo |-> {}] @@ RkcStart
    /\ gm = [built |-> FALSE, recs |-> <<>>, country_dict |-> EmptyDict]
    /\ lookup = NoLookup

LocateIdle ==
    /\ locator = NewLocator(<<>>)
    /\ res = NoRes
    /\ stored = [rows |-> <<>>, writes |-> 0]

\* The cached-fetch layer.
Init == FetchInit /\ CountryIdle /\ LocateIdle
Spec == Init /\ [][FetchNext]_vars

\* The country registries.
InitCountries == CountryInit /\ FetchIdle /\ LocateIdle
SpecCountries == InitCountries /\ [][CountryNext]_vars

\* The location resolver.
InitLocate == LocateInit /\ FetchIdle
SpecLocate == InitLocate /\ [][LocateNext]_vars

\* The location resolver and the file of the places, over several runs.
InitStore == LocateInit /\ FetchIdle
SpecStore == InitStore /\ [][StoreNext]_vars

\* The fuzzy match in a code list.
InitFuzzy == FuzzyInit /\ FetchIdle
SpecFuzzy == InitFuzzy /\ [][FuzzyNext]_vars

\* The coordinates of the code list.
InitGeo == GeoInit /\ FetchIdle /\ CountryIdle
SpecGeo == InitGeo /\ [][GeoNext]_vars

\* The location resolver on a whole mapping.
InitBatch == BatchInit /\ FetchIdle
SpecBatch == InitBatch /\ [][BatchNext]_vars

----------------------------------------------------------------------------
(* The fetch layer: what the claims speak of *)

CachedOps == {"get_cached_url", "get_cached_json", "get_cached_xml",
              "get_cached_binary"}

\* The step is a call of get_cached_url (directly or by a specialization).
CachedFetchStep == call' # call /\ call'.op \in CachedOps

\* The cache slot of the call exists before the call.
SlotExists(c) == cache[c.file_path].exists

\* The age of the slot before the call.
SlotAge(c) == now - cache[c.file_path].mtime

\* The failure kinds of the taxonomy, as the exceptions that carry them.
ConnectionFailure == "ConnectionError"
DecodeFailure == "ValueError"
AuthenticationRequired == "PermissionError"

\* decode_func fails on the payload of the call.
DecodeFails(c) == Decode(c.decode_func, c.data).exc # ""

\* C1: a call whose cache slot exists and is younger than ttl, or exists
\* with ttl = None at any age, reads its payload from the slot and performs
\* no network request.
C1_FreshSlotNoRequest ==
    [][(/\ CachedFetchStep
        /\ SlotExists(call')
        /\ (call'.ttl = PyNone \/ SlotAge(call') < call'.ttl[2]))
       => (/\ ~call'.requested
           /\ call'.net = NoNet
           /\ call'.data = cache[call'.file_path].data)]_vars

\* A cache hit with ttl = None on a slot older than every ttl of the model.
C1_Witness ==
    /\ call.op \in CachedOps
    /\ call.hit
    /\ call.ttl = PyNone
    /\ now - cache[call.file_path].mtime > MaxTtl
    /\ ~call.requested

\* C2 as stated: with ttl = None and no cache slot the call fails and sends
\* no request.
C2_Original ==
    [][(CachedFetchStep /\ call'.ttl = PyNone /\ ~SlotExists(call'))
       => (~call'.requested /\ call'.exc # "")]_vars

\* C2 amended: with ttl = None and no cache slot the call performs the
\* network GET like any other cache miss; when the GET and the decode
\* succeed it returns the decoded value and writes the slot.
C2_NoExpiryMissFetches ==
    [][(CachedFetchStep /\ call'.ttl = PyNone /\ ~SlotExists(call'))
       => (/\ call'.requested
           /\ call'.net # NoNet
           /\ (call'.net.kind = "response" /\ call'.net.status < 400
               /\ ~DecodeFails(call'))
              => (/\ call'.exc = ""
                  /\ call'.value = Decode(call'.decode_func, call'.net.text).value
                  /\ call'.write_ok => cache'[call'.file_path].exists))]_vars

\* A call with ttl = None on an absent slot that fetched and returned.
C2_Witness ==
    /\ call.op \in CachedOps
    /\ call.ttl = PyNone
    /\ call.requested
    /\ call.exc = ""
    /\ call.wrote /\ call.write_ok
    /\ cache[call.file_path] = [exists |-> TRUE, mtime |-> now, data |-> call.data]

\* C3 as stated: a GET that ends in a transport error or in any non-2xx
\* final status fails with ConnectionFailure, undecoded, without a value.
C3_Original ==
    (/\ call.op \in CachedOps
     /\ call.requested
     /\ \/ call.net.kind # "response"
        \/ call.net.status < 200
        \/ call.net.status > 299)
    => (call.exc = ConnectionFailure /\ ~call.decoded /\ call.value = PyNone)

\* C3 amended: a GET that ends in requests.ConnectionError or in a 4xx or
\* 5xx final status fails with ConnectionFailure, undecoded and without a
\* value; another exception of the transport (a read timeout) propagates as
\* it is, undecoded and without a value; a final status outside 4xx/5xx
\* (a 304) is taken as a success and the payload is decoded.
C3_ConnectionFailure ==
    (call.op \in CachedOps /\ call.requested)
    => /\ (\/ call.net.kind = "requests.ConnectionError"
           \/ call.net.kind = "response" /\ call.net.status \in 400..599)
          => (/\ call.exc = ConnectionFailure
              /\ ~call.decoded
              /\ call.value = PyNone)
       /\ (call.net.kind \notin {"response", "requests.ConnectionError"})
          => (/\ call.exc = call.net.kind
              /\ ~call.decoded
              /\ call.value = PyNone)
       /\ (call.net.kind = "response" /\ call.net.status \notin 400..599)
          => call.decoded

\* A GET that ended in a 404 and failed with ConnectionFailure.
C3_Witness ==
    /\ call.op \in CachedOps
    /\ call.requested
    /\ call.net.kind = "response"
    /\ call.net.status = 404
    /\ call.exc = ConnectionFailure
    /\ ~call.decoded

\* C4 as stated, for a decode function that fails with a ValueError: the
\* failure is classified by the final URL only: DecodeFailure when it equals
\* the requested URL, AuthenticationRequired when it differs and holds the
\* login marker, and otherwise UnexpectedRedirect, a kind that is none of
\* the other kinds.
C4_Original ==
    (/\ call.op \in CachedOps
     /\ call.decoded
     /\ Decode(call.decode_func, call.data).exc = "ValueError")
    => /\ (call.finalurl = call.url) => call.exc = DecodeFailure
       /\ (call.finalurl # call.url /\ Contains(call.finalurl, Login))
          => call.exc = AuthenticationRequired
       /\ (call.finalurl # call.url /\ ~Contains(call.finalurl, Login))
          => call.exc \notin {"", ConnectionFailure, DecodeFailure,
                              AuthenticationRequired}

\* C4 amended: a decode failure that is a ValueError is classified by the
\* final URL only: DecodeFailure when it equals the requested URL,
\* AuthenticationRequired when it differs and holds the login marker, and
\* otherwise a ConnectionError, the exception of ConnectionFailure; a decode
\* failure that is no ValueError (ET.XML's ParseError) is not classified and
\* propagates as it is.
C4_DecodeFailureKinds ==
    (call.op \in CachedOps /\ call.decoded /\ DecodeFails(call))
    => LET exc == Decode(call.decode_func, call.data).exc
       IN  /\ (exc # "ValueError") => call.exc = exc
           /\ (exc = "ValueError") =>
                /\ (call.finalurl = call.url) => call.exc = DecodeFailure
                /\ (call.finalurl # call.url /\ Contains(call.finalurl, Login))
                   => call.exc = AuthenticationRequired
                /\ (call.finalurl # call.url /\ ~Contains(call.finalurl, Login))
                   => call.exc = ConnectionFailure

\* A decode failure after a redirect to a page that is no login page.
C4_Witness ==
    /\ call.op \in CachedOps
    /\ call.decoded
    /\ call.decode_func = "json.loads"
    /\ DecodeFails(call)
    /\ call.finalurl = UrlMoved
    /\ call.exc = ConnectionFailure

\* C5: two fetches of the same URL that end at the same final URL and whose
\* decode functions both fail report the same failure kind, whichever decode
\* function each was given.
C5_KindIndependentOfDecode ==
    [][(/\ call.op \in CachedOps
        /\ CachedFetchStep
        /\ call.decoded /\ DecodeFails(call)
        /\ call'.decoded /\ DecodeFails(call')
        /\ call.url = call'.url
        /\ call.finalurl = call'.finalurl)
       => call.exc = call'.exc]_vars

\* C6: a fetch whose GET and decode succeed writes the raw payload to the
\* cache slot before it returns; when the write fails the caller still gets
\* the decoded value.
C6_WriteThenReturn ==
    [][(/\ CachedFetchStep
        /\ call'.requested
        /\ call'.net.kind = "response"
        /\ call'.net.status \notin 400..599
        /\ ~DecodeFails(call'))
       => (/\ call'.exc = ""
           /\ call'.value = Decode(call'.decode_func, call'.net.text).value
           /\ call'.wrote
           /\ call'.write_ok =>
                cache' = [cache EXCEPT ![call'.file_path] =
                            [exists |-> TRUE, mtime |-> now,
                             data |-> call'.net.text]]
           /\ ~call'.write_ok => cache' = cache)]_vars

\* A fetch whose write to the slot failed and that returned its value.
C6_Witness ==
    /\ call.op \in CachedOps
    /\ call.requested
    /\ call.wrote
    /\ ~call.write_ok
    /\ call.exc = ""
    /\ call.value = <<"object", "json">>
    /\ ~cache[call.file_path].exists

\* C7 as stated: every request to a remote resource, that of the geocoding
\* lookup included, is sent only when the cache slot of the URL is absent
\* or stale, and an error status ends in ConnectionFailure.
C7_Original ==
    [][(call' # call /\ call'.op # "none" /\ call'.requested)
       => (/\ ~(SlotExists(call') /\ SlotAge(call') < 1)
           /\ (call'.net.kind = "response" /\ call'.net.status \in 400..599)
              => call'.exc = ConnectionFailure)]_vars

\* C7 amended: every request of get_cached_url and its specializations is
\* sent only when the cache slot is absent or stale, and an error status
\* ends in ConnectionFailure; the geocoding lookup uses get_uncached_url,
\* which sends a request on every call whatever the cache holds, leaves the
\* cache alone, returns the response text whatever the status, and lets an
\* exception of the transport propagate unclassified.
C7_CachedPathOnly ==
    [][(call' # call /\ call'.op # "none")
       => /\ (call'.op \in CachedOps /\ call'.requested)
             => (/\ ~(/\ SlotExists(call')
                      /\ (call'.ttl = PyNone \/ SlotAge(call') < call'.ttl[2]))
                 /\ (call'.net.kind = "response"
                     /\ call'.net.status \in 400..599)
                    => call'.exc = ConnectionFailure)
          /\ (call'.op = "get_uncached_url")
             => (/\ call'.requested
                 /\ cache' = cache
                 /\ call'.net.kind = "response"
                    => (call'.exc = "" /\ call'.value = <<"str", call'.net.text>>)
                 /\ call'.net.kind # "response"
                    => call'.exc = call'.net.kind)]_vars

\* A geocoding request sent while the slot of its URL is fresh, answered
\* with an error status and returned as text.
C7_Witness ==
    /\ call.op = "get_uncached_url"
    /\ call.requested
    /\ cache[call.file_path].exists
    /\ now - cache[call.file_path].mtime < 1
    /\ call.net.kind = "response"
    /\ call.net.status = 404
    /\ call.exc = ""

----------------------------------------------------------------------------
(* The country registries: what the claims speak of *)

\* The keys that belong to a record: its codes, its name, its aliases.
OwnKeys(country) ==
    {country["iso-2"], country["iso-3"], country.name}
    \cup {country.aliases[i] : i \in 1..Len(country.aliases)}

\* C8: in the mapping read_known_countries returns, the entries under the
\* ISO-2 code, the ISO-3 code, the name and every alias of each record of
\* the mapping refer to that record itself.
C8_KeysReferToOwnRecord ==
    rkc.pc = "done" =>
        \A k \in DOMAIN rkc.country_dict :
            LET r == rkc.country_dict[k]
            IN  \A own \in OwnKeys(rkc.recs[r]) :
                    /\ own \in DOMAIN rkc.country_dict
                    /\ rkc.country_dict[own] = r

\* The registry a lookup is made in, before the lookup.
RegistryOf(l) == IF l.registry = "dict" THEN rkc.country_dict ELSE gm.country_dict

LookupStep == lookup' # lookup

Placeholder(key) == [name |-> key, in_eu |-> FALSE]

\* C9 as stated: a lookup of a key that is not in the Country Registry does
\* not fail: it returns a placeholder whose name is the key and whose EU
\* flag is false, and leaves the registry unchanged.
C9_Original ==
    [][(LookupStep /\ lookup'.key \notin DOMAIN RegistryOf(lookup'))
       => (/\ lookup'.exc = ""
           /\ lookup'.value = Placeholder(lookup'.key)
           /\ rkc' = rkc
           /\ gm' = gm)]_vars

\* C9 amended: a lookup of a key that is not in the countrylist that
\* classify_countries built does not fail: it returns a placeholder whose
\* name is the key and whose EU flag is false, and leaves the registry
\* unchanged; the same lookup in the dict that read_known_countries
\* returned raises KeyError and leaves the registry unchanged.
C9_PlaceholderOnlyInCountrylist ==
    [][(LookupStep /\ lookup'.key \notin DOMAIN RegistryOf(lookup'))
       => (/\ rkc' = rkc
           /\ gm' = gm
           /\ lookup'.registry = "countrylist"
              => (/\ lookup'.exc = ""
                  /\ lookup'.value = Placeholder(lookup'.key))
           /\ lookup'.registry = "dict"
              => (/\ lookup'.exc = "KeyError"
                  /\ lookup'.value = NoValue))]_vars

\* A lookup of an unknown code in a countrylist that holds countries.
C9_Witness ==
    /\ lookup.registry = "countrylist"
    /\ lookup.key = Str("XX")
    /\ gm.country_dict # EmptyDict
    /\ lookup.key \notin DOMAIN gm.country_dict
    /\ lookup.value = [name |-> Str("XX"), in_eu |-> FALSE]
    /\ lookup.exc = ""

----------------------------------------------------------------------------
(* The location resolver: what the claims speak of *)

\* A field the caller populated: it is there, and it is neither None nor
\* the empty text.
Populated(location, name) ==
    name \in DOMAIN location /\ location[name] \notin {PyNone, Str("")}

\* C10: locate only adds fields to a location record: after a call, every
\* field the caller supplied is still there, and every field the caller
\* had populated has the value it had; so a location that carries a
\* longitude and a latitude keeps both when it is resolved again.
C10_OnlyAddsFields ==
    res.op = "locate" =>
        \A name \in DOMAIN res.location :
            /\ name \in DOMAIN res.after
            /\ Populated(res.location, name)
               => res.after[name] = res.location[name]

----------------------------------------------------------------------------
(* The resolver on a whole mapping: what the claims speak of *)

BatchStep == res.op = "locate_and_filter_places"

\* The entries whose resolution failed, with whatever exception.
FailedKeys == {key \in DOMAIN res.locations :
                 res.outcome[key] \notin {"located", "skipped", "not run"}}

\* The keys of the other entries, in the order of the mapping.
OtherKeys ==
    LET survives(key) == key \notin FailedKeys
    IN  SelectSeq([key \in DOMAIN res.locations |-> key], survives)

\* The same call on the same Locator for the mapping without the entries
\* that failed.
WithoutFailed ==
    LocateAndFilterPlacesOp(res.before, rkc,
        [i \in DOMAIN OtherKeys |-> res.locations[OtherKeys[i]]],
        cache, now,
        [i \in DOMAIN OtherKeys |-> res.nets[OtherKeys[i]]])

\* C11: locate_and_filter_places removes from the mapping exactly the
\* entries whose resolution failed with UnkownLocation (unknown country,
\* place not found), and every entry that is resolved when the failing
\* entries are left out of the mapping is kept, with the same result.
C11_DropsExactlyTheUnlocated ==
    BatchStep =>
        /\ \A key \in DOMAIN res.locations :
              key \in res.kept <=> res.outcome[key] # "UnkownLocation"
        /\ \A i \in DOMAIN OtherKeys :
              WithoutFailed.outcome[i] \in {"located", "skipped"}
              => /\ OtherKeys[i] \in res.kept
                 /\ res.after[OtherKeys[i]] = WithoutFailed.after[i]

----------------------------------------------------------------------------
(* The Place Registry: what the claims speak of *)

Namespaces == {"top500_id", "meril_id"}

\* The places (their positions in self.places) that list the identifier.
Holders(L, key, id) == {i \in 1..Len(L.places) : InList(id, L.places[i][key])}

IdsOf(L, key) ==
    UNION {{L.places[i][key][n] : n \in 1..Len(L.places[i][key])} :
           i \in 1..Len(L.places)}

\* C12: within a namespace, no identifier is in the identifier list of more
\* than one place of self.places.
C12_IdentifierInOnePlace ==
    \A key \in Namespaces : \A id \in IdsOf(locator, key) :
        Cardinality(Holders(locator, key, id)) <= 1

\* A step of store_known_places.
StoreStep == res'.op = "store_known_places" /\ stored.writes < MaxWrites

\* The places are as they were read from the file and the flag is clear.
NothingModified ==
    /\ ~locator.modified_places
    /\ locator.places = InitPlaces(stored.rows)

\* C13: store_known_places leaves the file alone when no place was added
\* or changed since the places were read.
C13_StoreOnlyWhenModified ==
    [][StoreStep /\ NothingModified => stored' = stored]_vars

\* The coordinate as a text of four decimals: of a float its "%.4f", of a
\* text the text.
CoordinateText(v) == IF v[1] = "float" THEN Str(FourDecimals(v[2])) ELSE v

IdSet(ids) == {ids[n] : n \in 1..Len(ids)}

\* What the round trip is to keep of a place.
Kept(place) ==
    [countrycode |-> place.countrycode, unlocode |-> place.unlocode,
     town |-> place.town,
     top500_id |-> IdSet(place.top500_id), meril_id |-> IdSet(place.meril_id),
     long |-> CoordinateText(place.long), lat |-> CoordinateText(place.lat)]

\* C14: the Locator made from the file that store_known_places wrote has,
\* for every place, the identifiers and the coordinate texts the place had
\* before the store.
C14_RoundTrip ==
    res.op = "Locator" =>
        /\ Len(locator.places) = Len(res.before.places)
        /\ \A i \in 1..Len(res.before.places) :
              \E j \in 1..Len(locator.places) :
                 Kept(locator.places[j]) = Kept(res.before.places[i])

----------------------------------------------------------------------------
(* The fuzzy match: what the claims speak of *)

SearchStep == res.op = "_search_locode"

\* The entries of the country of the location, in list order.
OfCountry ==
    LET of_country(locode) == locode.country = res.countrycode
    IN  SelectSeq(res.locodes, of_country)

\* The similarity of the town and an entry, and how it compares with a
\* threshold of percent / 100.
Score(locode) == Similarity(res.town[2], locode)
Reaches(locode, percent) == Score(locode).num * 100 >= percent * Score(locode).den
Exceeds(locode, percent) == Score(locode).num * 100 > percent * Score(locode).den

InSeq(x, seq) == \E i \in DOMAIN seq : seq[i] = x

\* C15 as the claim has it: an entry at 0.92 or above resolves the
\* location, the entries from 0.75 up to 0.92 are logged and the entries
\* below 0.75 are not.
C15_Original ==
    SearchStep =>
        /\ (\E i \in DOMAIN OfCountry : Reaches(OfCountry[i], 92))
           => res.place # NoValue
        /\ \A i \in DOMAIN res.examined :
              InSeq(res.examined[i], res.possible)
              <=> Reaches(res.examined[i], 75) /\ ~Reaches(res.examined[i], 92)

\* The first entry of the country whose similarity is above 0.92 (0: none).
FirstAccepted ==
    LET accepted == {i \in DOMAIN OfCountry : Exceeds(OfCountry[i], 92)}
    IN  IF accepted = {} THEN 0
        ELSE CHOOSE i \in accepted : \A j \in accepted : i <= j

\* The entries that are examined without being accepted.
Passed ==
    IF FirstAccepted = 0 THEN OfCountry
    ELSE SubSeq(OfCountry, 1, FirstAccepted - 1)

\* C15: the scan ends at the first entry of the country whose similarity is
\* above 0.92 and returns the place made from it (none when its coordinates
\* do not parse, none when there is no such entry); of the entries examined
\* before it exactly those above 0.75 are logged as possible matches.  An
\* entry at exactly 0.92 is only logged, one at exactly 0.75 is ignored.
C15_StrictThresholds ==
    SearchStep =>
        /\ res.place = IF FirstAccepted = 0 THEN NoValue
                       ELSE PlaceOfLocode(OfCountry[FirstAccepted],
                                ParseGeo84(OfCountry[FirstAccepted].geo84))
        /\ res.examined = IF FirstAccepted = 0 THEN OfCountry
                          ELSE SubSeq(OfCountry, 1, FirstAccepted)
        /\ LET logged(locode) == Exceeds(locode, 75)
           IN  res.possible = SelectSeq(Passed, logged)

\* The only entry of the country is at exactly 0.92: nothing is returned
\* and the entry is logged.
C15_Witness ==
    /\ SearchStep
    /\ Len(OfCountry) = 1
    /\ Score(OfCountry[1]).num * 100 = 92 * Score(OfCountry[1]).den
    /\ res.place = NoValue
    /\ res.possible = OfCountry

\* The entries of the country after the first accepted one.
AfterAccepted ==
    SubSeq(OfCountry, FirstAccepted + 1, Len(OfCountry))

\* C21: the scan goes through the code list in list order and stops at the
\* first entry of the country whose similarity is above the high threshold;
\* no entry after it is examined, also not one with a higher similarity,
\* and a place that is returned is made from that first entry.
C21_FirstQualifyingEntry ==
    SearchStep /\ FirstAccepted > 0 =>
        /\ Len(res.examined) = FirstAccepted
        /\ \A i \in DOMAIN res.examined : res.examined[i] = OfCountry[i]
        /\ \A i \in DOMAIN AfterAccepted :
              ~InSeq(AfterAccepted[i], res.examined)
        /\ res.place # NoValue =>
              /\ res.place.town = Str(OfCountry[FirstAccepted].name)
              /\ res.place.unlocode[2]
                    = UnlocodeOf[<<OfCountry[FirstAccepted].country[2],
                                   OfCountry[FirstAccepted].place[2]>>]

\* The first accepted entry is followed by an entry of the country with a
\* higher similarity, and the place of the first is returned.
C21_Witness ==
    /\ SearchStep
    /\ FirstAccepted > 0
    /\ res.place # NoValue
    /\ \E i \in DOMAIN AfterAccepted :
          Score(AfterAccepted[i]).num * Score(OfCountry[FirstAccepted]).den
             > Score(OfCountry[FirstAccepted]).num * Score(AfterAccepted[i]).den

----------------------------------------------------------------------------
(* The resolver on one location: what the claims speak of *)

\* A call of locate whose location had or got its country and country code.
LocateStep == res.op = "locate" /\ Normalize(rkc, res.location).exc = ""

\* The location as _get_place receives it.
Normalized == Normalize(rkc, res.location).location

HasTown == ~Falsy(Get(Normalized, "town"))

\* What each of the first four strategies yields on the Locator as it was
\* before the call (0, NoValue: nothing).
YieldTop500 ==
    GetKnownPlaceById(res.before, res.before.place_by_top500_id,
                      Get(Normalized, "top500_id")).idx
YieldMeril ==
    GetKnownPlaceById(res.before, res.before.place_by_meril_id,
                      Get(Normalized, "meril_id")).idx

\* The identifier lookup ended the call with UnkownLocation.
RaisedTop500 ==
    GetKnownPlaceById(res.before, res.before.place_by_top500_id,
                      Get(Normalized, "top500_id")).exc # ""
RaisedMeril ==
    /\ ~RaisedTop500
    /\ YieldTop500 = 0
    /\ GetKnownPlaceById(res.before, res.before.place_by_meril_id,
                         Get(Normalized, "meril_id")).exc # ""
RaisedById == RaisedTop500 \/ RaisedMeril
YieldKnown ==
    IF HasTown
    THEN GetKnownPlace(res.before, Normalized.countrycode, Normalized.town)
    ELSE 0
YieldLocode ==
    IF HasTown
    THEN SearchLocode(res.before, rkc, Normalized.countrycode,
                      Normalized.town).place
    ELSE NoValue

\* C16: the strategies are tried in the order Top 500 identifier, MERIL
\* identifier, known town, code list, geocoding service; the first that
\* yields a place ends the search, and the request to the geocoding service
\* is made only when the four before it yielded nothing.
C16_FirstStrategyWins ==
    LocateStep /\ ~RaisedById =>
        /\ YieldTop500 > 0 => res.strategy = "top500_id"
        /\ YieldTop500 = 0 /\ YieldMeril > 0 => res.strategy = "meril_id"
        /\ YieldTop500 = 0 /\ YieldMeril = 0 /\ YieldKnown > 0
           => res.strategy = "known"
        /\ YieldTop500 = 0 /\ YieldMeril = 0 /\ YieldKnown = 0
           /\ YieldLocode # NoValue
           => res.strategy = "unlocode"
        /\ res.requested
           => /\ YieldTop500 = 0 /\ YieldMeril = 0 /\ YieldKnown = 0
              /\ YieldLocode = NoValue
              /\ res.strategy = "osm"
        /\ res.strategy # "osm" => ~res.requested

\* The call before this step resolved its location in the code list or by
\* the geocoding service.
NewlyResolved ==
    /\ res.op = "locate"
    /\ res.exc = ""
    /\ res.strategy \in {"unlocode", "osm"}

\* This step is a call of locate for a location with the country code and
\* town of the location of the call before it.
SameTownAgain ==
    /\ res'.op = "locate"
    /\ Normalize(rkc, res'.location).exc = ""
    /\ Get(Normalize(rkc, res'.location).location, "countrycode")
       = Get(res.after, "countrycode")
    /\ Get(res'.location, "town") = Get(res.after, "town")

\* C17: a place found in the code list or by the geocoding service is in
\* self.places and the places are marked as modified, and the next call for
\* a location with the same country code and town is answered from
\* self.places, without a scan of the code list and without a request.
C17_ReusedByExactMatch ==
    [][NewlyResolved =>
          /\ InSeq(res.place, locator.places)
          /\ locator.modified_places
          /\ SameTownAgain
             => /\ res'.strategy \in {"top500_id", "meril_id", "known"}
                /\ ~res'.requested]_vars

\* The identifier of the location in the namespace is in the index of the
\* Locator as it was before the call, for a place that has neither
\* longitude nor latitude.
HitsBarePlace(key, index) ==
    /\ ~Falsy(Get(Normalized, key))
    /\ Get(Normalized, key)[2] \in DOMAIN index
    /\ res.before.places[index[Get(Normalized, key)[2]]].long \in {Str(""), PyNone}
    /\ res.before.places[index[Get(Normalized, key)[2]]].lat \in {Str(""), PyNone}

\* The identifier lookup comes to such a place: by the Top 500 identifier,
\* or by the MERIL identifier when the Top 500 identifier is not known.
LookupHitsBarePlace ==
    \/ HitsBarePlace("top500_id", res.before.place_by_top500_id)
    \/ /\ \/ Falsy(Get(Normalized, "top500_id"))
          \/ Get(Normalized, "top500_id")[2]
             \notin DOMAIN res.before.place_by_top500_id
       /\ HitsBarePlace("meril_id", res.before.place_by_meril_id)

\* The town of the location is that of a known place with coordinates.
TownResolvable ==
    /\ YieldKnown > 0
    /\ ~Falsy(res.before.places[YieldKnown].long)

\* C18 as the claim has it: a location whose identifier leads to a place
\* without coordinates and whose town can be resolved ends resolved.
C18_Original ==
    LocateStep /\ LookupHitsBarePlace /\ TownResolvable => res.exc = ""

\* C18: when the identifier lookup comes to a place that has neither
\* longitude nor latitude, locate raises UnkownLocation there: no later
\* strategy is run, no request is made, and the Locator and the location
\* are left as they were after normalization.
C18_BarePlaceEndsUnresolved ==
    LocateStep /\ LookupHitsBarePlace =>
        /\ res.exc = "UnkownLocation"
        /\ res.strategy \in {"top500_id", "meril_id"}
        /\ ~res.requested
        /\ locator = res.before
        /\ res.after = Normalized

C18_Witness ==
    /\ LocateStep
    /\ LookupHitsBarePlace
    /\ TownResolvable
    /\ res.exc = "UnkownLocation"

----------------------------------------------------------------------------
(* Normalization of the country and the country code in locate *)

\* What the Country Registry gives for the country code, and for the
\* country, of the location that was passed to locate.
ByCode == DictGetItem(rkc.recs, rkc.country_dict, res.location.countrycode)
ByCountry == DictGetItem(rkc.recs, rkc.country_dict, res.location.country)

NoCountry == Falsy(Get(res.location, "country"))
NoCode == Falsy(Get(res.location, "countrycode"))

\* A location with a country code of the registry and no country has its
\* country set from the record.
CountrySetFromCode ==
    ~NoCode /\ NoCountry /\ ByCode.exc = "" =>
        /\ res.exc # "KeyError"
        /\ ~Falsy(Get(res.after, "country"))

\* A location with a country of the registry and no country code has its
\* country code set to the ISO-2 code of the record.
CodeSetFromCountry ==
    NoCode /\ ~NoCountry /\ ByCountry.exc = "" =>
        Get(res.after, "countrycode") = ByCountry.value["iso-2"]

\* A location without both, or with one that the registry does not have,
\* ends with UnkownLocation before any strategy.
UnknownCountryEnds ==
    \/ NoCode /\ NoCountry
    \/ ~NoCode /\ NoCountry /\ ByCode.exc = "KeyError"
    \/ NoCode /\ ~NoCountry /\ ByCountry.exc = "KeyError"
    => /\ res.exc = "UnkownLocation"
       /\ res.strategy = "none"
       /\ ~res.requested

\* C19: locate derives the country from a known country code and the
\* country code from a known country, whatever source the record of the
\* country came from, and ends with UnkownLocation, no strategy run, when
\* the country or the code is unknown or both are missing.
C19_Normalization ==
    res.op = "locate" =>
        CountrySetFromCode /\ CodeSetFromCountry /\ UnknownCountryEnds

\* The same for the records that have the key 'country' only.
C19_RecordsWithCountryKey ==
    res.op = "locate" =>
        /\ ~NoCode /\ NoCountry /\ ByCode.exc = ""
              /\ "country" \in DOMAIN ByCode.value
           => /\ res.exc # "KeyError"
              /\ ~Falsy(Get(res.after, "country"))
        /\ CodeSetFromCountry
        /\ UnknownCountryEnds

----------------------------------------------------------------------------
(* The exact match with a known place *)

\* The call was ended by the known place with the country code and the town
\* of the location.
ExactMatch == LocateStep /\ res.strategy = "known"

\* The location carries an identifier of the namespace.
Carries(key) == ~Falsy(Get(Normalized, key))

\* The list of the matched place before the call, and after it.
ListBefore(key) == res.before.places[YieldKnown][key]
ListAfter(key) == locator.places[YieldKnown][key]

\* The location carries an identifier that the list does not hold.
Missing(key) == Carries(key) /\ ~InSeq(Get(Normalized, key)[2], ListBefore(key))

\* C20: on an exact match each identifier of the location is appended to
\* the list of the matched place for its namespace unless the list holds
\* it, no place is added, and the call sets the modified flag exactly when
\* it appended an identifier.
C20_IdentifiersAppendedOnce ==
    ExactMatch =>
        /\ YieldKnown > 0
        /\ Len(locator.places) = Len(res.before.places)
        /\ \A key \in Namespaces :
              ListAfter(key) = IF Missing(key)
                               THEN Append(ListBefore(key),
                                           Get(Normalized, key)[2])
                               ELSE ListBefore(key)
        /\ locator.modified_places
              = (res.before.modified_places \/ \E key \in Namespaces : Missing(key))

\* An exact match for a location whose identifier the place holds already:
\* the identifier was appended by an earlier call for the same location.
C20_Witness ==
    /\ ExactMatch
    /\ \E key \in Namespaces : Carries(key) /\ ~Missing(key)
    /\ res.before.modified_places

----------------------------------------------------------------------------
(* The coordinates of a code-list entry *)

ParseStep == res.op = "_parse_geo84" /\ res.parts # <<>>

\* The number that two digits, or three, stand for.
Number(digits) ==
    IF Len(digits) = 2 THEN 10 * DigitVal[digits[1]] + DigitVal[digits[2]]
    ELSE 100 * DigitVal[digits[1]] + 10 * DigitVal[digits[2]]
         + DigitVal[digits[3]]

\* value, in 1/10000 degree, is sign * (degrees + minutes / 60) rounded.
IsDegrees(value, sign, degrees, minutes) ==
    /\ 60 * sign * value - 10000 * (60 * Number(degrees) + Number(minutes)) <= 30
    /\ 10000 * (60 * Number(degrees) + Number(minutes)) - 60 * sign * value <= 30

\* The sign that the claim gives to a letter (0: the letter is none of the
\* axis), and the sign that the code gives.
SignOf(letter, plus, minus) ==
    IF letter = <<plus>> THEN 1 ELSE IF letter = <<minus>> THEN -1 ELSE 0
CodeSignOf(letter, plus) == IF letter = <<plus>> THEN 1 ELSE -1

\* The latitude and the longitude of the text are what the claim says of a
\* text with the given number of digits for the degrees of longitude.
Coordinates(long, lat) ==
    /\ long[1] = "float" /\ lat[1] = "float"
    /\ IsDegrees(lat[2], SignOf(res.parts[3], "N", "S"), res.parts[1], res.parts[2])
    /\ IsDegrees(long[2], SignOf(res.parts[7], "E", "W"), res.parts[5], res.parts[6])

\* C22: two digits of degrees, two of minutes and a letter of the axis, for
\* both axes, give latitude = sign * (degrees + minutes / 60), positive for
\* N and negative for S, and longitude likewise with E and W, returned as
\* (longitude, latitude) by geolocator.py and by generate_map.py; any
\* other text gives no coordinates.
C22_ParsedAsLongLat ==
    ParseStep =>
        IF /\ Len(res.parts[5]) = 2
           /\ res.parts[4] = <<" ">>
           /\ res.parts[8] = <<>>
           /\ SignOf(res.parts[3], "N", "S") # 0
        THEN /\ Coordinates(res.long, res.lat)
             /\ Coordinates(res.gm_long, res.gm_lat)
        ELSE /\ res.long = PyNone /\ res.lat = PyNone
             /\ res.gm_long = PyNone /\ res.gm_lat = PyNone

\* The same for the texts of the code list, which have three digits for
\* the degrees of longitude: (longitude, latitude) from both files.
BothCodeListTexts ==
    /\ ParseStep
    /\ Len(res.parts[5]) = 3
    /\ res.parts[4] = <<" ">>
    /\ res.parts[8] = <<>>
    /\ SignOf(res.parts[3], "N", "S") # 0
    => /\ Coordinates(res.long, res.lat)
       /\ Coordinates(res.gm_long, res.gm_lat)

\* The same for geolocator.py alone.
LocatorCodeListTexts ==
    /\ ParseStep
    /\ Len(res.parts[5]) = 3
    /\ res.parts[4] = <<" ">>
    /\ res.parts[8] = <<>>
    /\ SignOf(res.parts[3], "N", "S") # 0
    => Coordinates(res.long, res.lat)

\* The text starts with two digits of degrees, two of minutes, a word
\* character, a space, three digits of degrees, two of minutes and a word
\* character.
StartsWithShape ==
    /\ res.parts[4] = <<" ">>
    /\ Len(res.parts[5]) = 3

\* The numbers of the two axes as the code computes them: the sign is
\* negative for every letter but N, and but E.
LatitudeOfText(value) ==
    /\ value[1] = "float"
    /\ IsDegrees(value[2], CodeSignOf(res.parts[3], "N"), res.parts[1], res.parts[2])
LongitudeOfText(value) ==
    /\ value[1] = "float"
    /\ IsDegrees(value[2], CodeSignOf(res.parts[7], "E"), res.parts[5], res.parts[6])

\* What the two files compute: a text that starts with two digits of
\* degrees, two of minutes and a letter, a space, and three digits of
\* degrees, two of minutes and a letter gives latitude = sign * (degrees +
\* minutes / 60) from the first group, positive for N and negative for any
\* other letter, and longitude from the second group, positive for E and
\* negative for any other letter; geolocator.py returns (longitude,
\* latitude), generate_map.py returns the two numbers in the same places
\* under the opposite names.  Any other text gives (None, None).
ParseGeo84Computes ==
    ParseStep =>
        IF StartsWithShape
        THEN /\ LatitudeOfText(res.lat) /\ LongitudeOfText(res.long)
             /\ LatitudeOfText(res.gm_long) /\ LongitudeOfText(res.gm_lat)
        ELSE /\ res.long = PyNone /\ res.lat = PyNone
             /\ res.gm_long = PyNone /\ res.gm_lat = PyNone

----------------------------------------------------------------------------
(* The geocoding request in locate_and_filter_places *)

\* The request for the entry at key was made and failed: no answer from
\* the service, or an answer with an error status, whose page is no JSON.
RequestFailed(key) ==
    \/ /\ res.nets[key].kind # "response"
       /\ res.outcome[key] = res.nets[key].kind
    \/ /\ res.nets[key].kind = "response"
       /\ res.nets[key].status >= 400
       /\ res.outcome[key] = Decode("json.loads", res.nets[key].text).exc
       /\ res.outcome[key] # ""

\* C23: when the geocoding request for an entry fails,
\* locate_and_filter_places still returns, every entry of the mapping has
\* been gone through, and the entry of the failed request is removed as
\* unresolved.
C23_RequestFailureNotFatal ==
    BatchStep =>
        \A key \in DOMAIN res.locations :
            RequestFailed(key) =>
                /\ res.exc = ""
                /\ key \notin res.kept
                /\ \A other \in DOMAIN res.locations :
                      res.outcome[other] # "not run"

----------------------------------------------------------------------------
(* The Cache Store under failures and under hits *)

\* The fetch c ends in a failure: the request had no answer, or an answer
\* with an error status, or the payload is not decoded by decode_func.
FetchFails(c) ==
    \/ /\ c.requested
       /\ \/ c.net.kind # "response"
          \/ c.net.status \in 400..599
    \/ c.decoded /\ DecodeFails(c)

\* C24: a fetch that ends in a failure (no answer, an error status, a
\* payload that is not decoded) raises, gives no value, and leaves every
\* slot of the Cache Store as it was: none is made, and a stale slot keeps
\* its contents and its modification time.
C24_FailureLeavesCache ==
    [][CachedFetchStep /\ FetchFails(call') =>
          /\ call'.exc # ""
          /\ call'.value = PyNone
          /\ ~call'.wrote
          /\ cache' = cache]_vars

\* A failed fetch on a stale slot: the request was made because the slot
\* had reached its ttl, the payload was not decoded, the slot is as it was
\* written at time 0.
C24_Witness ==
    /\ call.op \in CachedOps
    /\ call.requested
    /\ call.decoded
    /\ call.exc # ""
    /\ call.ttl # PyNone
    /\ cache[call.file_path] = [exists |-> TRUE, mtime |-> 0, data |-> "json"]
    /\ now >= call.ttl[2]

\* C25: a fetch served from the cache leaves the Cache Store as it was, so
\* the age of a slot goes on from the time it was written; with a ttl that
\* is not None a fetch on a slot younger than ttl makes no request, and a
\* fetch on a slot whose age has reached ttl makes the one request of a
\* call, whatever fetches were served from the slot before.
C25_HitsDoNotRefresh ==
    [][CachedFetchStep =>
          /\ call'.hit => cache' = cache /\ ~call'.requested
          /\ SlotExists(call') /\ call'.ttl # PyNone =>
                /\ SlotAge(call') < call'.ttl[2]
                      => call'.hit /\ ~call'.requested /\ call'.net = NoNet
                /\ SlotAge(call') >= call'.ttl[2]
                      => ~call'.hit /\ call'.requested /\ call'.net # NoNet]_vars

\* A fetch served from a slot in the last unit of time before its ttl; the
\* slot still has the time at which it was written.
C25_Witness ==
    /\ call.op \in CachedOps
    /\ call.hit
    /\ call.ttl # PyNone
    /\ now > 0
    /\ now = cache[call.file_path].mtime + call.ttl[2] - 1

----------------------------------------------------------------------------
(* The indexes of the Locator *)

IndexOf(L, key) ==
    IF key = "top500_id" THEN L.place_by_top500_id ELSE L.place_by_meril_id

\* C26: for every place of the Locator and every identifier in its list of
\* a namespace, the index of the namespace leads from the identifier to
\* that place.
C26_IndexAgreesWithPlaces ==
    \A i \in DOMAIN locator.places :
        \A key \in Namespaces :
            \A j \in DOMAIN locator.places[i][key] :
                /\ locator.places[i][key][j] \in DOMAIN IndexOf(locator, key)
                /\ IndexOf(locator, key)[locator.places[i][key][j]] = i

----------------------------------------------------------------------------
(* The modified flag of the Locator *)

\* The places as they were loaded from the file of the run.
LoadedPlaces == NewLocator(stored.rows).places

\* C27: whenever the places of the Locator differ from the places that were
\* loaded (a place added, an identifier appended, a field of a place
\* changed), the flag _modified_places is true.
C27_ModifiedWhenChanged ==
    locator.places # LoadedPlaces => locator.modified_places

\* The same for the number of places and their lists of identifiers alone.
FlagCoversPlacesAndIdentifiers ==
    \/ Len(locator.places) # Len(LoadedPlaces)
    \/ \E i \in DOMAIN locator.places \cap DOMAIN LoadedPlaces :
          \E key \in Namespaces :
              locator.places[i][key] # LoadedPlaces[i][key]
    => locator.modified_places

----------------------------------------------------------------------------
(* One place for a town *)

\* C28: no two places of the Locator have the same country code and the
\* same town; the files of the model start so.
C28_OnePlacePerTown ==
    \A i, j \in DOMAIN locator.places :
        /\ locator.places[i].countrycode = locator.places[j].countrycode
        /\ locator.places[i].town = locator.places[j].town
        => i = j

----------------------------------------------------------------------------
(* The locations that locate_and_filter_places keeps *)

\* The location has a value for the field: the key is there and its value
\* is neither None nor the empty text of a file without the value.
HasValue(location, name) == Get(location, name) \notin {PyNone, Str("")}

\* C29: when locate_and_filter_places has returned, every location that is
\* still in the mapping has a longitude and a latitude.
C29_KeptHaveCoordinates ==
    BatchStep /\ res.exc = "" =>
        \A key \in res.kept :
            /\ HasValue(res.after[key], "long")
            /\ HasValue(res.after[key], "lat")

----------------------------------------------------------------------------
(* A call of locate that ends unresolved *)

\* The places, the indexes and the modified flag of a Locator.
Registry(L) ==
    [places |-> L.places, place_by_top500_id |-> L.place_by_top500_id,
     place_by_meril_id |-> L.place_by_meril_id,
     modified_places |-> L.modified_places]

\* C30: a call of locate that ends with UnkownLocation (unknown country, no
\* place found, a place without coordinates) leaves the places, the indexes
\* and the modified flag of the Locator as they were before the call.
C30_UnresolvedLeavesRegistry ==
    res.op = "locate" /\ res.exc = "UnkownLocation" =>
        Registry(locator) = Registry(res.before)

====
